---------------------------- MODULE Spec2Model ----------------------------
(***************************************************************************)
(* A model of the MongoDB storage facade of the edge sync service          *)
(* (MongoStorage): the leader-election document, the objects collection    *)
(* with its counters and destination lists, and chunked payload upload.    *)
(*                                                                         *)
(* Every MongoDB request (insert, update, fetch) is one atomic step: the   *)
(* backend is atomic per single-document operation and nothing more.       *)
(* Handlers that issue several requests are split at those requests when   *)
(* they run on threads.                                                    *)
(***************************************************************************)
EXTENDS Integers, Sequences, FiniteSets, TLC

(***************************************************************************)
(* Bounds of the model.                                                    *)
(***************************************************************************)
NumNodes == 2
MaxClock == 5
MaxVersion == 3
\* The longest payload an upload delivers, in bytes.
MaxTotal == 4
\* Arbitrary AppendObjectData calls: the longest reader content in bytes, the
\* largest offset, and how many calls are made.
MaxChunk == 2
MaxOffset == 2
MaxCalls == 3
\* Object handlers: how many calls are made, the largest expectedConsumers a
\* caller passes, and the longest destinations list RetrieveObjects extends.
MaxOps == 4
MaxConsumers == 2
MaxDestList == 3
\* Notifications: the last second of the wall clock.
MaxNow == 7

Nodes == 1..NumNodes
Versions == 0..MaxVersion

VARIABLES
    leader,      \* the "leader" collection: a set of leaderDocument records
    clock,       \* the server's timestamp source ($currentDate)
    ret,         \* the call that returned last and what it returned
    nInserted,   \* how many InsertInitialLeader calls returned inserted=true
    won,         \* won[v]: how many UpdateLeader(_, v) calls returned success
    lastWinner,  \* the node whose UpdateLeader succeeded last (0: none yet)
    files,       \* files[id]: the published GridFS blob of an object
    openFiles,   \* store.openFiles: id -> *fileHandle
    aret,        \* the AppendObjectData call that returned last
    calls,       \* how many calls the callers of the specification made
    up,          \* up[id]: the chunks a sender still has to deliver
    objects,     \* the "objects" collection: id -> object document
    destinations,\* the "destinations" collection, in insertion order
    th,          \* th[t]: the handler thread t runs, its position and locals
    fs,          \* the file system under the data URI: names, inodes, content
    notifications, \* the "notifications" collection: a set of rows
    now,         \* the nodes' wall clock, in seconds (time.Now().Unix())
    webhooks,    \* the "webhooks" collection: the document of one object type
    messagingGroups \* the "messagingGroups" collection: a set of documents

leaderVars == <<leader, clock, ret, nInserted, won, lastWinner>>
fileVars == <<files, openFiles, aret, calls, up>>
objVars == <<objects, destinations, th>>
\* What the operations of one part of the store leave alone.
restVars == <<notifications, now, webhooks, messagingGroups>>
baseVars == <<leader, ret, nInserted, won, lastWinner, openFiles, aret, up, fs>>
nonLeaderVars == <<fileVars, objVars, fs, restVars>>
nonFileVars == <<leaderVars, objVars, fs, restVars>>
nonObjVars == <<baseVars, restVars>>
nonFsVars == <<leader, clock, ret, nInserted, won, lastWinner, files, openFiles, aret, up,
               objects, destinations, restVars>>
nonNotifVars == <<baseVars, clock, files, objects, destinations, webhooks, messagingGroups>>
nonHookVars == <<baseVars, files, objects, destinations, notifications, now,
                 messagingGroups>>
vars == <<leader, clock, ret, nInserted, won, lastWinner, files, openFiles, aret, calls, up,
          objects, destinations, th, fs, notifications, now, webhooks, messagingGroups>>

(***************************************************************************)
(* Leader election                                                         *)
(***************************************************************************)

\* bson.NewMongoTimestamp(time.Date(1970, 1, 1, ...), 1): seconds 0, ordinal 1.
\* The zero value of an unset MongoTimestamp is 0; $currentDate yields values
\* above EpochTS.
EpochTS == 1

\* common.Configuration.LeadershipTimeout of each node.
LeadershipTimeout(n) == 10 * n

leaderDocument(uuid, ts, timeout, version) ==
    [id |-> 1, uuid |-> uuid, ts |-> ts, timeout |-> timeout, version |-> version]

NoCall == [op |-> "none", node |-> 0, version |-> 0, success |-> FALSE, err |-> FALSE]

Call(op, n, v, ok) == [op |-> op, node |-> n, version |-> v, success |-> ok, err |-> FALSE]

\* InsertInitialLeader written as an upsert: a second call replaces the document.
InsertInitialLeaderUpsert(n) ==
    /\ leader' = {leaderDocument(n, 0, LeadershipTimeout(n), 1)}
    /\ ret' = Call("InsertInitialLeader", n, 0, TRUE)
    /\ nInserted' = nInserted + 1
    /\ UNCHANGED <<clock, won, lastWinner, nonLeaderVars>>

\* store.insert(leader, doc): fails with a duplicate-key error when a document
\* with the same _id exists.
InsertInitialLeader(n) ==
    LET doc == leaderDocument(n, 0, LeadershipTimeout(n), 1)
        dup == \E d \in leader : d.id = doc.id
    IN  /\ leader' = IF dup THEN leader ELSE leader \cup {doc}
        /\ ret' = Call("InsertInitialLeader", n, 0, ~dup)
        /\ nInserted' = IF dup THEN nInserted ELSE nInserted + 1
        /\ UNCHANGED <<clock, won, lastWinner, nonLeaderVars>>

\* LeaderPeriodicUpdate with the uuid left out of the filter.
LeaderPeriodicUpdateAnyUuid(n) ==
    LET match == {d \in leader : d.id = 1}
    IN  /\ clock < MaxClock
        /\ IF match = {}
             THEN /\ ret' = Call("LeaderPeriodicUpdate", n, 0, FALSE)
                  /\ UNCHANGED <<leader, clock>>
             ELSE /\ clock' = clock + 1
                  /\ leader' = (leader \ match) \cup
                        {[d EXCEPT !.ts = clock + 1] : d \in match}
                  /\ ret' = Call("LeaderPeriodicUpdate", n, 0, TRUE)
        /\ UNCHANGED <<nInserted, won, lastWinner, nonLeaderVars>>

\* LeaderPeriodicUpdate that also increments the version.
LeaderPeriodicUpdateNewVersion(n) ==
    LET match == {d \in leader : d.id = 1 /\ d.uuid = n}
    IN  /\ clock < MaxClock
        /\ IF match = {}
             THEN /\ ret' = Call("LeaderPeriodicUpdate", n, 0, FALSE)
                  /\ UNCHANGED <<leader, clock>>
             ELSE /\ clock' = clock + 1
                  /\ leader' = (leader \ match) \cup
                        {[d EXCEPT !.ts = clock + 1,
                                   !.version = IF @ < MaxVersion THEN @ + 1 ELSE @]
                           : d \in match}
                  /\ ret' = Call("LeaderPeriodicUpdate", n, 0, TRUE)
        /\ UNCHANGED <<nInserted, won, lastWinner, nonLeaderVars>>

\* store.update(leader, {_id: 1, uuid: leaderID}, {$currentDate: last-heartbeat-ts})
LeaderPeriodicUpdate(n) ==
    LET match == {d \in leader : d.id = 1 /\ d.uuid = n}
    IN  /\ clock < MaxClock
        /\ IF match = {}
             THEN /\ ret' = Call("LeaderPeriodicUpdate", n, 0, FALSE)
                  /\ UNCHANGED <<leader, clock>>
             ELSE /\ clock' = clock + 1
                  /\ leader' = (leader \ match) \cup
                        {[d EXCEPT !.ts = clock + 1] : d \in match}
                  /\ ret' = Call("LeaderPeriodicUpdate", n, 0, TRUE)
        /\ UNCHANGED <<nInserted, won, lastWinner, nonLeaderVars>>

\* store.fetchOne(leader, {_id: 1}): the caller reads uuid, timeout, ts, version.
RetrieveLeader(n) ==
    /\ ret' = IF leader = {}
                THEN [Call("RetrieveLeader", n, 0, FALSE) EXCEPT !.err = TRUE]
                ELSE Call("RetrieveLeader", n, (CHOOSE d \in leader : d.id = 1).version, TRUE)
    /\ UNCHANGED <<leader, clock, nInserted, won, lastWinner, nonLeaderVars>>

\* UpdateLeader with the version left out of the filter.
UpdateLeaderAnyVersion(n, v) ==
    LET match == {d \in leader : d.id = 1}
    IN  /\ clock < MaxClock
        /\ IF match = {}
             THEN /\ ret' = Call("UpdateLeader", n, v, FALSE)
                  /\ UNCHANGED <<leader, clock, won, lastWinner>>
             ELSE /\ clock' = clock + 1
                  /\ leader' = (leader \ match) \cup
                        {leaderDocument(n, clock + 1, LeadershipTimeout(n), v + 1)}
                  /\ ret' = Call("UpdateLeader", n, v, TRUE)
                  /\ won' = [won EXCEPT ![v] = @ + 1]
                  /\ lastWinner' = n
        /\ UNCHANGED <<nInserted, nonLeaderVars>>

\* UpdateLeader that sets version to the observed version, not to its successor.
UpdateLeaderSameVersion(n, v) ==
    LET match == {d \in leader : d.id = 1 /\ d.version = v}
    IN  /\ clock < MaxClock
        /\ IF match = {}
             THEN /\ ret' = Call("UpdateLeader", n, v, FALSE)
                  /\ UNCHANGED <<leader, clock, won, lastWinner>>
             ELSE /\ clock' = clock + 1
                  /\ leader' = (leader \ match) \cup
                        {leaderDocument(n, clock + 1, LeadershipTimeout(n), v)}
                  /\ ret' = Call("UpdateLeader", n, v, TRUE)
                  /\ won' = [won EXCEPT ![v] = IF @ < NumNodes + MaxClock THEN @ + 1 ELSE @]
                  /\ lastWinner' = n
        /\ UNCHANGED <<nInserted, nonLeaderVars>>

\* store.update(leader, {_id: 1, version: version},
\*   {$currentDate: last-heartbeat-ts, $set: {uuid, heartbeat-timeout, version: version + 1}})
UpdateLeader(n, v) ==
    LET match == {d \in leader : d.id = 1 /\ d.version = v}
    IN  /\ clock < MaxClock
        /\ IF match = {}
             THEN /\ ret' = Call("UpdateLeader", n, v, FALSE)
                  /\ UNCHANGED <<leader, clock, won, lastWinner>>
             ELSE /\ clock' = clock + 1
                  /\ leader' = (leader \ match) \cup
                        {leaderDocument(n, clock + 1, LeadershipTimeout(n), v + 1)}
                  /\ ret' = Call("UpdateLeader", n, v, TRUE)
                  /\ won' = [won EXCEPT ![v] = @ + 1]
                  /\ lastWinner' = n
        /\ UNCHANGED <<nInserted, nonLeaderVars>>

\* ResignLeadership with the uuid left out of the filter.
ResignLeadershipAnyUuid(n) ==
    LET match == {d \in leader : d.id = 1}
    IN  /\ leader' = (leader \ match) \cup {[d EXCEPT !.ts = EpochTS] : d \in match}
        /\ ret' = Call("ResignLeadership", n, 0, match # {})
        /\ UNCHANGED <<clock, nInserted, won, lastWinner, nonLeaderVars>>

\* store.update(leader, {_id: 1, uuid: leaderID}, {$set: {last-heartbeat-ts: 1970}})
ResignLeadership(n) ==
    LET match == {d \in leader : d.id = 1 /\ d.uuid = n}
    IN  /\ leader' = (leader \ match) \cup {[d EXCEPT !.ts = EpochTS] : d \in match}
        /\ ret' = Call("ResignLeadership", n, 0, match # {})
        /\ UNCHANGED <<clock, nInserted, won, lastWinner, nonLeaderVars>>

(***************************************************************************)
(* Chunked upload: AppendObjectData                                        *)
(***************************************************************************)

\* Object collection ids (orgID:objectType:objectID).
Keys == {"O:T:X", "O:T:Y"}
\* The object the upload specifications exercise.
UploadKeys == {"O:T:X"}

\* The out-of-order window of AppendObjectData (len(fileHandle.chunks) > 100).
MaxOutOfOrder == 100

\* No published blob / a published blob.
NoFile == [exists |-> FALSE, data |-> <<>>]
File(bytes) == [exists |-> TRUE, data |-> bytes]

\* No entry in openFiles.
NoHandle == [open |-> FALSE, reading |-> FALSE, offset |-> 0, chunks |-> {}, staged |-> <<>>]

\* store.createFile(id): a fresh GridFS file open for writing; offset 0, no chunks.
\* staged holds the bytes written to the file so far: GridFS publishes on Close.
createFile == [open |-> TRUE, reading |-> FALSE, offset |-> 0, chunks |-> {}, staged |-> <<>>]

\* store.openFile(id): the handle of a published blob opened for reading.
openFile == [open |-> TRUE, reading |-> TRUE, offset |-> 0, chunks |-> {}, staged |-> <<>>]

\* fileHandle.chunks[offset]: chunks is a set of [off, data] with distinct off.
ChunkAt(h, off) == {c \in h.chunks : c.off = off}

Min2(a, b) == IF a < b THEN a ELSE b

\* Lines 857-872: read dataLength bytes (all of the reader when dataLength = 0).
\* rd: the bytes the reader holds; rdErr: the reader fails.
ReadChunk(rd, rdErr, dataLength) ==
    IF dataLength > 0
      THEN IF rdErr \/ Len(rd) = 0
             THEN [err |-> "read", data |-> <<>>]
             ELSE IF Min2(Len(rd), dataLength) # dataLength
                    THEN [err |-> "short", data |-> <<>>]
                    ELSE [err |-> "", data |-> SubSeq(rd, 1, dataLength)]
      ELSE IF rdErr THEN [err |-> "read", data |-> <<>>]
                    ELSE [err |-> "", data |-> rd]

\* The drain loop with its repeat left out: the chunk just written is not
\* followed by the buffered chunks.
WriteAndDrainOnce(h, data) ==
    [h EXCEPT !.staged = @ \o data, !.offset = @ + Len(data)]

\* Lines 874-897: write data at handle.offset, advance the offset, and go on
\* with the buffered chunk keyed by the new offset, if any, removing it.
RECURSIVE WriteAndDrain(_, _)
WriteAndDrain(h, data) ==
    LET h1 == [h EXCEPT !.staged = @ \o data, !.offset = @ + Len(data)]
        nxt == ChunkAt(h1, h1.offset)
    IN  IF nxt = {}
          THEN h1
          ELSE LET c == CHOOSE x \in nxt : TRUE
               IN  WriteAndDrain([h1 EXCEPT !.chunks = @ \ {c}], c.data)

\* Lines 899-911: buffer an out-of-order chunk, unless the window is full.
BufferChunk(h, offset, data) ==
    IF Cardinality(h.chunks) > MaxOutOfOrder
      THEN [err |-> "discarded", h |-> h]
      ELSE [err |-> "",
            h |-> [h EXCEPT !.chunks = (@ \ ChunkAt(h, offset))
                                        \cup {[off |-> offset, data |-> data]}]]

\* AppendObjectData that keeps the handle registered after the last chunk.
AppendObjectDataKeepHandle(h0, f0, rd, rdErr, dataLength, offset, isFirstChunk, isLastChunk) ==
    LET f1 == IF isFirstChunk THEN NoFile ELSE f0
        fh == IF isFirstChunk THEN createFile ELSE h0
        r  == ReadChunk(rd, rdErr, dataLength)
        b  == IF offset = fh.offset
                THEN [err |-> "", h |-> WriteAndDrain(fh, r.data)]
                ELSE BufferChunk(fh, offset, r.data)
    IN  IF ~isFirstChunk /\ ~h0.open THEN [err |-> "nofile", h |-> h0, f |-> f0]
        ELSE IF r.err # "" THEN [err |-> r.err, h |-> h0, f |-> f1]
        ELSE IF b.err # "" THEN [err |-> b.err, h |-> h0, f |-> f1]
        ELSE IF isLastChunk THEN [err |-> "", h |-> b.h, f |-> File(b.h.staged)]
        ELSE [err |-> "", h |-> b.h, f |-> f1]

\* AppendObjectData as a function of the openFiles entry h0 and the published
\* blob f0 of the id: the entry and the blob it leaves, and the error it returns.
\*   isFirstChunk: removeFile(id), createFile(id); else getFileHandle(id), an
\*                 error when there is none;
\*   then the read, the in-order write or the buffering;
\*   isLastChunk: deleteFileHandle(id) and file.Close(), which publishes;
\*                else putFileHandle(id, fileHandle).
\* An error return after createFile leaves openFiles as it was: the new handle
\* is registered only by putFileHandle at the end.
AppendObjectData(h0, f0, rd, rdErr, dataLength, offset, isFirstChunk, isLastChunk) ==
    LET f1 == IF isFirstChunk THEN NoFile ELSE f0
        fh == IF isFirstChunk THEN createFile ELSE h0
        r  == ReadChunk(rd, rdErr, dataLength)
        b  == IF offset = fh.offset
                THEN [err |-> "", h |-> WriteAndDrain(fh, r.data)]
                ELSE BufferChunk(fh, offset, r.data)
    IN  IF ~isFirstChunk /\ ~h0.open THEN [err |-> "nofile", h |-> h0, f |-> f0]
        ELSE IF r.err # "" THEN [err |-> r.err, h |-> h0, f |-> f1]
        ELSE IF b.err # "" THEN [err |-> b.err, h |-> h0, f |-> f1]
        ELSE IF isLastChunk THEN [err |-> "", h |-> NoHandle, f |-> File(b.h.staged)]
        ELSE [err |-> "", h |-> b.h, f |-> f1]

NoAppend == [op |-> "none", id |-> "", first |-> FALSE, last |-> FALSE, err |-> ""]

\* One AppendObjectData call on the store.
DoAppend(id, rd, rdErr, dataLength, offset, isFirstChunk, isLastChunk) ==
    LET a == AppendObjectData(openFiles[id], files[id], rd, rdErr, dataLength, offset,
                              isFirstChunk, isLastChunk)
    IN  /\ openFiles' = [openFiles EXCEPT ![id] = a.h]
        /\ files' = [files EXCEPT ![id] = a.f]
        /\ aret' = [op |-> "AppendObjectData", id |-> id,
                    first |-> isFirstChunk, last |-> isLastChunk, err |-> a.err]

(***************************************************************************)
(* A sender that splits a payload into chunks and delivers them in any     *)
(* order, flagging the first delivery isFirstChunk and the last isLastChunk *)
(***************************************************************************)

\* The payload: byte i of it is i.
Payload(total) == [i \in 1..total |-> i]

\* The chunks of [0, total) cut at the offsets in cuts.
ChunksOf(total, cuts) ==
    LET B == {0, total} \cup cuts
    IN  {[off |-> a, len |-> (CHOOSE b \in B : b > a /\ \A x \in B : x > a => b <= x) - a]
           : a \in B \ {total}}

ChunkData(c) == [i \in 1..c.len |-> c.off + i]

\* all: the chunks of the payload; todo: those not delivered yet; sent: the
\* offsets delivered, in delivery order.
NoUpload == [all |-> {}, todo |-> {}, total |-> 0, sent |-> <<>>]

\* The sender decides on a payload and its chunking (no call on the store).
StartUpload(id, total, cuts) ==
    /\ up' = [up EXCEPT ![id] = [all |-> ChunksOf(total, cuts),
                                 todo |-> ChunksOf(total, cuts), total |-> total,
                                 sent |-> <<>>]]
    /\ UNCHANGED <<files, openFiles, aret, calls, nonFileVars>>

\* The sender delivers one of the chunks left, with dataLength set or 0.
DeliverChunk(id, c, dataLength) ==
    /\ c \in up[id].todo
    /\ DoAppend(id, ChunkData(c), FALSE, dataLength, c.off,
                up[id].sent = <<>>, up[id].todo = {c})
    /\ up' = IF aret'.err = ""
               THEN [up EXCEPT ![id].todo = @ \ {c}, ![id].sent = Append(@, c.off)]
               ELSE up
    /\ UNCHANGED <<calls, nonFileVars>>

\* The sender delivers one of the chunks left and flags it by its place in
\* the payload: the chunk at offset 0 is the first, the chunk that ends the
\* payload is the last, in whatever order the chunks arrive.
DeliverChunkByPlace(id, c) ==
    /\ c \in up[id].todo
    /\ DoAppend(id, ChunkData(c), FALSE, c.len, c.off,
                c.off = 0, c.off + c.len = up[id].total)
    /\ up' = IF aret'.err = ""
               THEN [up EXCEPT ![id].todo = @ \ {c}, ![id].sent = Append(@, c.off)]
               ELSE up
    /\ UNCHANGED <<calls, nonFileVars>>

\* The blob that delivering the chunks in ascending offset order publishes.
RECURSIVE SequentialAppend(_, _, _, _)
SequentialAppend(h, f, chunks, all) ==
    IF chunks = {} THEN f
    ELSE LET c == CHOOSE x \in chunks : \A y \in chunks : x.off <= y.off
             a == AppendObjectData(h, f, ChunkData(c), FALSE, c.len, c.off,
                                   chunks = all, chunks = {c})
         IN  SequentialAppend(a.h, a.f, chunks \ {c}, all)

\* Arbitrary AppendObjectData calls, MaxCalls of them: any reader content of
\* up to MaxChunk bytes, any declared length, any offset up to MaxOffset, any
\* flags, a reader that fails or not.
Bytes == {1, 2}

Readers == UNION {[1..n -> Bytes] : n \in 0..MaxChunk}

AnyAppend(id, rd, rdErr, dataLength, offset, isFirstChunk, isLastChunk) ==
    /\ calls < MaxCalls
    /\ calls' = calls + 1
    /\ DoAppend(id, rd, rdErr, dataLength, offset, isFirstChunk, isLastChunk)
    /\ UNCHANGED <<up, nonFileVars>>

NextAppend ==
    \E id \in UploadKeys, rd \in Readers, rdErr \in BOOLEAN, dataLength \in 0..MaxChunk,
       offset \in 0..MaxOffset, isFirstChunk \in BOOLEAN, isLastChunk \in BOOLEAN :
         AnyAppend(id, rd, rdErr, dataLength, offset, isFirstChunk, isLastChunk)

\* One open upload that receives out-of-order chunks: the first chunk writes
\* byte 0, and every later chunk is one byte at a fresh offset past the gap at
\* offset 1, so none of them is in order, until a last chunk fills the gap.
\* calls counts the out-of-order chunks sent to the open upload.
OverflowOpen(id) ==
    /\ ~openFiles[id].open
    /\ DoAppend(id, <<1>>, FALSE, 1, 0, TRUE, FALSE)
    /\ calls' = 0
    /\ UNCHANGED <<up, nonFileVars>>

OverflowChunk(id) ==
    /\ openFiles[id].open
    /\ calls <= MaxOutOfOrder + 1
    /\ DoAppend(id, <<2>>, FALSE, 1, 2 + calls, FALSE, FALSE)
    /\ calls' = calls + 1
    /\ UNCHANGED <<up, nonFileVars>>

OverflowClose(id) ==
    /\ openFiles[id].open
    /\ DoAppend(id, <<3>>, FALSE, 1, 1, FALSE, TRUE)
    /\ UNCHANGED <<calls, up, nonFileVars>>

NextOverflow ==
    \/ \E id \in UploadKeys : OverflowOpen(id)
    \/ \E id \in UploadKeys : OverflowChunk(id)
    \/ \E id \in UploadKeys : OverflowClose(id)

(***************************************************************************)
(* The objects and destinations collections                                *)
(*                                                                         *)
(* Handlers run on threads.  A handler takes one step per request to the   *)
(* database, with the local computation that follows the request, and      *)
(* other threads' steps may fall between two steps.  th[t].pc = "idle"     *)
(* when thread t runs no handler; op, val, metas and err then tell which   *)
(* handler returned last on the thread and what it returned.               *)
(***************************************************************************)
Threads == {"t1", "t2"}

\* The order in which fetchAll returns the documents of the collection.
KeySeq == <<"O:T:X", "O:T:Y">>

\* The destinations of the organization: (destType, destID).
Dests == {[destType |-> "T1", destID |-> "D1"], [destType |-> "T1", destID |-> "D2"]}

\* maxUpdateTries
maxUpdateTries == 5

Statuses ==
    {"NotReadyToSend", "ReadyToSend", "PartiallyReceived", "CompletelyReceived",
     "ObjReceived", "ObjDeleted"}

\* The keys of the notifications: destination org, object id, destination.
NotKeys ==
    {[org |-> "O", objectID |-> "X", destType |-> "T1", destID |-> "D1"],
     [org |-> "O", objectID |-> "X", destType |-> "T1", destID |-> "D2"],
     [org |-> "P", objectID |-> "X", destType |-> "T1", destID |-> "D1"]}

\* common.Notification, the fields the storage reads or writes; the zero value.
NoNotification ==
    [key |-> [org |-> "", objectID |-> "", destType |-> "", destID |-> ""],
     status |-> "", resendTime |-> 0]

\* The empty notifications collection (a set of rows).
NoNotifications == {}

\* No document for the object type in the webhooks collection.
NoWebhooks == [exists |-> FALSE, hooks |-> <<>>, lastUpdate |-> 0]

\* common.MetaData, the fields the storage reads or writes; the zero value.
NoMeta ==
    [instanceID |-> 0, destType |-> "", destID |-> "", expectedConsumers |-> 0,
     inactive |-> FALSE, noData |-> FALSE, metaOnly |-> FALSE, autoDelete |-> FALSE,
     expiration |-> "", objectSize |-> 0, deleted |-> FALSE]

\* No document with the id.
NoObject ==
    [exists |-> FALSE, md |-> NoMeta, status |-> "", remainingConsumers |-> 0,
     remainingReceivers |-> 0, destinations |-> <<>>, lastUpdate |-> 0]

\* type object; LastUpdate is left at its zero value by the constructor.
object(metaData, status, dests) ==
    [exists |-> TRUE, md |-> metaData, status |-> status,
     remainingConsumers |-> metaData.expectedConsumers,
     remainingReceivers |-> metaData.expectedConsumers,
     destinations |-> dests, lastUpdate |-> 0]

\* A thread that runs no handler and has run none.
Idle ==
    [pc |-> "idle", op |-> "none", id |-> "", i |-> 0, val |-> 0, err |-> "",
     status |-> "", message |-> "", destType |-> "", destID |-> "", md |-> NoMeta,
     data |-> <<>>, res |-> NoObject, expire |-> FALSE, list |-> <<>>, j |-> 0,
     metas |-> <<>>, fd |-> 0, offset |-> 0, dataLength |-> 0, rdErr |-> FALSE,
     last |-> FALSE, h0 |-> NoHandle, mdIn |-> NoMeta, retrieveReceived |-> FALSE,
     url |-> "", result |-> NoWebhooks, notification |-> NoNotification,
     size |-> 0, eof |-> FALSE]

\* The thread after the handler op returned val (or the list metas) and err.
Returned(op, val, metas, err) ==
    [Idle EXCEPT !.op = op, !.val = val, !.metas = metas, !.err = err]

\* A caller may start a handler on thread t.
MayCall(t) == th[t].pc = "idle" /\ calls < MaxOps

\* The stored destination with the key, if any (store.fetchOne on destinations).
HasDestination(destType, destID) ==
    \E n \in 1..Len(destinations) :
        destinations[n] = [destType |-> destType, destID |-> destID]

\* common.StoreDestinationStatus
StoreDestinationStatus(d, status, message) ==
    [destination |-> d, status |-> status, message |-> message]

\* store.createDestinations(metaData): the stored destinations of the
\* organization that pass the DestType and DestID filters, each Pending.
createDestinations(metaData) ==
    LET pass(d) == /\ (metaData.destType = "" \/ d.destType = metaData.destType)
                   /\ (metaData.destID = "" \/ d.destID = metaData.destID)
        F[n \in 0..Len(destinations)] ==
            IF n = 0 THEN <<>>
            ELSE IF pass(destinations[n])
                   THEN Append(F[n - 1], StoreDestinationStatus(destinations[n], "Pending", ""))
                   ELSE F[n - 1]
    IN  F[Len(destinations)]

\* StoreDestination: one upsert keyed by the destination's collection id.
StoreDestination(t, d) ==
    /\ MayCall(t)
    /\ calls' = calls + 1
    /\ destinations' = IF HasDestination(d.destType, d.destID)
                         THEN destinations ELSE Append(destinations, d)
    /\ th' = [th EXCEPT ![t] = Returned("StoreDestination", 0, <<>>, "")]
    /\ UNCHANGED <<objects, clock, files, nonObjVars>>

\* StoreObject that stores the instance id it was given.
StoreObjectKeepInstanceID(t, id, metaData, data, status) ==
    /\ MayCall(t)
    /\ calls' = calls + 1
    /\ files' = [files EXCEPT ![id] =
                   IF data # <<>> THEN File(data)
                   ELSE IF ~metaData.metaOnly \/ metaData.noData THEN NoFile ELSE @]
    /\ th' = [th EXCEPT ![t] =
                [Idle EXCEPT !.pc = "StoreObject_upsert", !.op = "StoreObject", !.id = id,
                   !.status = status, !.mdIn = metaData, !.md = metaData,
                   !.res = [NoObject EXCEPT !.destinations =
                              IF status \in {"NotReadyToSend", "ReadyToSend"}
                                THEN createDestinations(metaData) ELSE <<>>]]]
    /\ UNCHANGED <<objects, destinations, clock, nonObjVars>>

\* StoreObject that builds the destinations list whatever the status.
StoreObjectDestsAnyStatus(t, id, metaData, data, status) ==
    /\ MayCall(t)
    /\ calls' = calls + 1
    /\ files' = [files EXCEPT ![id] =
                   IF data # <<>> THEN File(data)
                   ELSE IF ~metaData.metaOnly \/ metaData.noData THEN NoFile ELSE @]
    /\ th' = [th EXCEPT ![t] =
                [Idle EXCEPT !.pc = "StoreObject_upsert", !.op = "StoreObject", !.id = id,
                   !.status = status, !.mdIn = metaData,
                   !.md = IF status \in {"NotReadyToSend", "ReadyToSend"}
                            THEN [metaData EXCEPT !.instanceID = clock] ELSE metaData,
                   !.res = [NoObject EXCEPT !.destinations = createDestinations(metaData)]]]
    /\ UNCHANGED <<objects, destinations, clock, nonObjVars>>

\* StoreObject up to the upsert: the payload is stored (data # <<>>) or
\* removed, and for an origin status the instance id is taken from the time
\* and the destinations are read to build the destinations list.
StoreObject(t, id, metaData, data, status) ==
    /\ MayCall(t)
    /\ calls' = calls + 1
    /\ files' = [files EXCEPT ![id] =
                   IF data # <<>> THEN File(data)
                   ELSE IF ~metaData.metaOnly \/ metaData.noData THEN NoFile ELSE @]
    /\ th' = [th EXCEPT ![t] =
                [Idle EXCEPT !.pc = "StoreObject_upsert", !.op = "StoreObject", !.id = id,
                   !.status = status, !.mdIn = metaData,
                   !.md = IF status \in {"NotReadyToSend", "ReadyToSend"}
                            THEN [metaData EXCEPT !.instanceID = clock] ELSE metaData,
                   !.res = [NoObject EXCEPT !.destinations =
                              IF status \in {"NotReadyToSend", "ReadyToSend"}
                                THEN createDestinations(metaData) ELSE <<>>]]]
    /\ UNCHANGED <<objects, destinations, clock, nonObjVars>>

\* StoreObject, the upsert: the whole document is replaced.
StoreObjectUpsert(t) ==
    /\ th[t].pc = "StoreObject_upsert"
    /\ objects' = [objects EXCEPT ![th[t].id] =
                     object(th[t].md, th[t].status, th[t].res.destinations)]
    /\ th' = [th EXCEPT ![t] =
                [Returned("StoreObject", 0, <<>>, "") EXCEPT
                   !.id = th[t].id, !.status = th[t].status, !.mdIn = th[t].mdIn]]
    /\ UNCHANGED <<destinations, clock, files, calls, nonObjVars>>

\* RetrieveObject: one fetch of the metadata; an absent object is (nil, nil).
\* val tells whether metadata was returned.
RetrieveObject(t, id) ==
    /\ MayCall(t)
    /\ calls' = calls + 1
    /\ th' = [th EXCEPT ![t] =
                IF objects[id].exists
                  THEN [Returned("RetrieveObject", 1, <<>>, "") EXCEPT
                          !.id = id, !.md = objects[id].md]
                  ELSE [Returned("RetrieveObject", 0, <<>>, "") EXCEPT !.id = id]]
    /\ UNCHANGED <<objects, destinations, clock, files, nonObjVars>>

\* DecrementAndReturnRemainingConsumers that writes expectedConsumers - 1
\* instead of decrementing the stored value.
DecrementFromExpected(t, id) ==
    /\ MayCall(t)
    /\ clock < MaxClock
    /\ calls' = calls + 1
    /\ IF objects[id].exists
         THEN /\ objects' = [objects EXCEPT
                               ![id].remainingConsumers = objects[id].md.expectedConsumers - 1,
                               ![id].lastUpdate = clock + 1]
              /\ clock' = clock + 1
              /\ th' = [th EXCEPT ![t] =
                          [Idle EXCEPT !.pc = "Decrement_fetch", !.id = id,
                                       !.op = "DecrementAndReturnRemainingConsumers"]]
         ELSE /\ th' = [th EXCEPT ![t] =
                          Returned("DecrementAndReturnRemainingConsumers", 0, <<>>, "decrement")]
              /\ UNCHANGED <<objects, clock>>
    /\ UNCHANGED <<destinations, files, nonObjVars>>

\* DecrementAndReturnRemainingConsumers with $inc by +1.
IncrementRemainingConsumers(t, id) ==
    /\ MayCall(t)
    /\ clock < MaxClock
    /\ calls' = calls + 1
    /\ IF objects[id].exists
         THEN /\ objects' = [objects EXCEPT ![id].remainingConsumers = @ + 1,
                                            ![id].lastUpdate = clock + 1]
              /\ clock' = clock + 1
              /\ th' = [th EXCEPT ![t] =
                          [Idle EXCEPT !.pc = "Decrement_fetch", !.id = id,
                                       !.op = "DecrementAndReturnRemainingConsumers"]]
         ELSE /\ th' = [th EXCEPT ![t] =
                          Returned("DecrementAndReturnRemainingConsumers", 0, <<>>, "decrement")]
              /\ UNCHANGED <<objects, clock>>
    /\ UNCHANGED <<destinations, files, nonObjVars>>

\* DecrementAndReturnRemainingConsumers, the update: $inc by -1, whatever the
\* stored value.
DecrementAndReturnRemainingConsumers(t, id) ==
    /\ MayCall(t)
    /\ clock < MaxClock
    /\ calls' = calls + 1
    /\ IF objects[id].exists
         THEN /\ objects' = [objects EXCEPT ![id].remainingConsumers = @ - 1,
                                            ![id].lastUpdate = clock + 1]
              /\ clock' = clock + 1
              /\ th' = [th EXCEPT ![t] =
                          [Idle EXCEPT !.pc = "Decrement_fetch", !.id = id,
                                       !.op = "DecrementAndReturnRemainingConsumers"]]
         ELSE /\ th' = [th EXCEPT ![t] =
                          Returned("DecrementAndReturnRemainingConsumers", 0, <<>>, "decrement")]
              /\ UNCHANGED <<objects, clock>>
    /\ UNCHANGED <<destinations, files, nonObjVars>>

\* DecrementAndReturnRemainingConsumers that returns the counter as it was
\* before a decrement.
DecrementFetchBefore(t) ==
    /\ th[t].pc = "Decrement_fetch"
    /\ th' = [th EXCEPT ![t] =
                IF objects[th[t].id].exists
                  THEN Returned("DecrementAndReturnRemainingConsumers",
                                objects[th[t].id].remainingConsumers + 1, <<>>, "")
                  ELSE Returned("DecrementAndReturnRemainingConsumers", 0, <<>>, "retrieve")]
    /\ UNCHANGED <<objects, destinations, clock, files, calls, nonObjVars>>

\* DecrementAndReturnRemainingConsumers, the fetch of the value to return.
DecrementFetch(t) ==
    /\ th[t].pc = "Decrement_fetch"
    /\ th' = [th EXCEPT ![t] =
                IF objects[th[t].id].exists
                  THEN Returned("DecrementAndReturnRemainingConsumers",
                                objects[th[t].id].remainingConsumers, <<>>, "")
                  ELSE Returned("DecrementAndReturnRemainingConsumers", 0, <<>>, "retrieve")]
    /\ UNCHANGED <<objects, destinations, clock, files, calls, nonObjVars>>

\* ResetObjectRemainingConsumers, the fetch of the metadata.
ResetObjectRemainingConsumers(t, id) ==
    /\ MayCall(t)
    /\ calls' = calls + 1
    /\ th' = [th EXCEPT ![t] =
                IF objects[id].exists
                  THEN [Idle EXCEPT !.pc = "Reset_update", !.id = id, !.res = objects[id],
                                    !.op = "ResetObjectRemainingConsumers"]
                  ELSE Returned("ResetObjectRemainingConsumers", 0, <<>>, "retrieve")]
    /\ UNCHANGED <<objects, destinations, clock, files, nonObjVars>>

\* ResetObjectRemainingConsumers, the update with the value that was fetched.
ResetUpdate(t) ==
    /\ th[t].pc = "Reset_update"
    /\ clock < MaxClock
    /\ IF objects[th[t].id].exists
         THEN /\ objects' = [objects EXCEPT
                               ![th[t].id].remainingConsumers = th[t].res.md.expectedConsumers,
                               ![th[t].id].lastUpdate = clock + 1]
              /\ clock' = clock + 1
              /\ th' = [th EXCEPT ![t] = Returned("ResetObjectRemainingConsumers", 0, <<>>, "")]
         ELSE /\ th' = [th EXCEPT ![t] =
                          Returned("ResetObjectRemainingConsumers", 0, <<>>, "reset")]
              /\ UNCHANGED <<objects, clock>>
    /\ UNCHANGED <<destinations, files, calls, nonObjVars>>

\* One update of the object's document by id with $currentDate on last-update:
\* the body of UpdateObjectStatus, MarkObjectDeleted and ActivateObject.
UpdateById(t, op, id, doc) ==
    /\ MayCall(t)
    /\ clock < MaxClock
    /\ calls' = calls + 1
    /\ IF objects[id].exists
         THEN /\ objects' = [objects EXCEPT ![id] = [doc EXCEPT !.lastUpdate = clock + 1]]
              /\ clock' = clock + 1
              /\ th' = [th EXCEPT ![t] = Returned(op, 0, <<>>, "")]
         ELSE /\ th' = [th EXCEPT ![t] = Returned(op, 0, <<>>, "update")]
              /\ UNCHANGED <<objects, clock>>
    /\ UNCHANGED <<destinations, files, nonObjVars>>

UpdateObjectStatus(t, id, status) ==
    UpdateById(t, "UpdateObjectStatus", id, [objects[id] EXCEPT !.status = status])

MarkObjectDeleted(t, id) ==
    UpdateById(t, "MarkObjectDeleted", id,
               [objects[id] EXCEPT !.status = "ObjDeleted", !.md.deleted = TRUE])

ActivateObject(t, id) ==
    UpdateById(t, "ActivateObject", id, [objects[id] EXCEPT !.md.inactive = FALSE])

\* StoreObjectData, the fetch of the status: an absent object returns false
\* with no error.
StoreObjectData(t, id, data) ==
    /\ MayCall(t)
    /\ calls' = calls + 1
    /\ th' = [th EXCEPT ![t] =
                IF ~objects[id].exists
                  THEN [Returned("StoreObjectData", 0, <<>>, "") EXCEPT !.id = id]
                  ELSE [Idle EXCEPT !.op = "StoreObjectData", !.id = id, !.data = data,
                          !.status = objects[id].status,
                          !.pc = IF objects[id].status \in {"NotReadyToSend", "ReadyToSend"}
                                   THEN "StoreObjectData_status" ELSE "StoreObjectData_copy"]]
    /\ UNCHANGED <<objects, destinations, clock, files, nonObjVars>>

\* StoreObjectData, the update that follows the fetched status: NotReadyToSend
\* becomes ReadyToSend through UpdateObjectStatus, whose error is dropped;
\* ReadyToSend gets a new instance id, and a failure of that update is returned.
StoreObjectDataStatus(t) ==
    /\ th[t].pc = "StoreObjectData_status"
    /\ clock < MaxClock
    /\ IF objects[th[t].id].exists
         THEN /\ objects' = [objects EXCEPT ![th[t].id] =
                               IF th[t].status = "NotReadyToSend"
                                 THEN [@ EXCEPT !.status = "ReadyToSend", !.lastUpdate = clock + 1]
                                 ELSE [@ EXCEPT !.md.instanceID = clock, !.lastUpdate = clock + 1]]
              /\ clock' = clock + 1
              /\ th' = [th EXCEPT ![t].pc = "StoreObjectData_copy"]
         ELSE /\ th' = [th EXCEPT ![t] =
                          IF th[t].status = "NotReadyToSend"
                            THEN [@ EXCEPT !.pc = "StoreObjectData_copy"]
                            ELSE Returned("StoreObjectData", 0, <<>>, "instance id")]
              /\ UNCHANGED <<objects, clock>>
    /\ UNCHANGED <<destinations, files, calls, nonObjVars>>

\* StoreObjectData, copyDataToFile: the payload is published.
StoreObjectDataCopy(t) ==
    /\ th[t].pc = "StoreObjectData_copy"
    /\ files' = [files EXCEPT ![th[t].id] = File(th[t].data)]
    /\ th' = [th EXCEPT ![t].pc = "StoreObjectData_size"]
    /\ UNCHANGED <<objects, destinations, clock, calls, nonObjVars>>

\* StoreObjectData that returns without the update of metadata.object-size.
StoreObjectDataSizeSkipped(t) ==
    /\ th[t].pc = "StoreObjectData_size"
    /\ IF objects[th[t].id].exists
         THEN /\ th' = [th EXCEPT ![t] = Returned("StoreObjectData", 1, <<>>, "")]
              /\ UNCHANGED objects
         ELSE /\ th' = [th EXCEPT ![t] = Returned("StoreObjectData", 0, <<>>, "size")]
              /\ UNCHANGED objects
    /\ UNCHANGED <<destinations, clock, files, calls, nonObjVars>>

\* StoreObjectData, the update of metadata.object-size (no $currentDate).
StoreObjectDataSize(t) ==
    /\ th[t].pc = "StoreObjectData_size"
    /\ IF objects[th[t].id].exists
         THEN /\ objects' = [objects EXCEPT ![th[t].id].md.objectSize = Len(th[t].data)]
              /\ th' = [th EXCEPT ![t] = Returned("StoreObjectData", 1, <<>>, "")]
         ELSE /\ th' = [th EXCEPT ![t] = Returned("StoreObjectData", 0, <<>>, "size")]
              /\ UNCHANGED objects
    /\ UNCHANGED <<destinations, clock, files, calls, nonObjVars>>

\* RetrieveObjects: the objects the query of fetchAll selects, as fetched.
FetchReady ==
    LET ks == SelectSeq(KeySeq, LAMBDA k : /\ objects[k].exists
                                           /\ objects[k].status \in {"ReadyToSend", "NotReadyToSend"})
    IN  [n \in 1..Len(ks) |-> [id |-> ks[n], obj |-> objects[ks[n]]]]

\* RetrieveObjects: the object passes the destination filter of the pass.
Wanted(r, destType, destID) ==
    /\ (r.md.destType = "" \/ r.md.destType = destType)
    /\ (r.md.destID = "" \/ r.md.destID = destID)

\* RetrieveObjects: the pass moves to the next object at or after index j that
\* passes the filter, or returns the metadata it collected (the thread keeps
\* the destination the call was made for).
NextWanted(s, j) ==
    LET cand == {n \in j..Len(s.list) : Wanted(s.list[n].obj, s.destType, s.destID)}
    IN  IF cand = {}
          THEN [Returned("RetrieveObjects", 0, s.metas, "")
                  EXCEPT !.destType = s.destType, !.destID = s.destID]
          ELSE [s EXCEPT !.pc = "RetrieveObjects_dest",
                         !.j = CHOOSE n \in cand : \A m \in cand : n <= m]

\* RetrieveObjects, fetchAll of a pass.
RetrieveObjectsPass(s) == NextWanted([s EXCEPT !.list = FetchReady, !.metas = <<>>], 1)

RetrieveObjects(t, destType, destID) ==
    /\ MayCall(t)
    /\ calls' = calls + 1
    /\ th' = [th EXCEPT ![t] =
                RetrieveObjectsPass([Idle EXCEPT !.op = "RetrieveObjects",
                                                 !.destType = destType, !.destID = destID])]
    /\ UNCHANGED <<objects, destinations, clock, files, nonObjVars>>

\* RetrieveObjects, a pass after a conflict.
RetrieveObjectsFetch(t) ==
    /\ th[t].pc = "RetrieveObjects_fetch"
    /\ th' = [th EXCEPT ![t] = RetrieveObjectsPass(th[t])]
    /\ UNCHANGED <<objects, destinations, clock, files, calls, nonObjVars>>

\* RetrieveObjects, RetrieveDestination for the object at j: a ReadyToSend
\* active object is reported (its fetched metadata, of which the object's id
\* is a part) and its entry will be Delivering, else Pending.
\* Without a stored destination the object is left as it is.
RetrieveObjectsDest(t) ==
    LET s == th[t]
        r == s.list[s.j]
        send == r.obj.status = "ReadyToSend" /\ ~r.obj.md.inactive
        s1 == [s EXCEPT !.metas = IF send THEN Append(@, [id |-> r.id, md |-> r.obj.md]) ELSE @,
                        !.status = IF send THEN "Delivering" ELSE "Pending"]
    IN  /\ s.pc = "RetrieveObjects_dest"
        /\ th' = [th EXCEPT ![t] =
                    IF HasDestination(s.destType, s.destID)
                      THEN [s1 EXCEPT !.pc = "RetrieveObjects_update"]
                      ELSE NextWanted(s1, s.j + 1)]
        /\ UNCHANGED <<objects, destinations, clock, files, calls, nonObjVars>>

\* RetrieveObjects, the update of the object at j: the destination is appended
\* to the list that was fetched, and the list is written if last-update is
\* still the fetched one; else the pass starts over, maxUpdateTries times.
RetrieveObjectsUpdate(t) ==
    LET s == th[t]
        r == s.list[s.j]
        d == [destType |-> s.destType, destID |-> s.destID]
    IN  /\ s.pc = "RetrieveObjects_update"
        /\ clock < MaxClock
        /\ Len(r.obj.destinations) < MaxDestList
        /\ IF objects[r.id].exists /\ objects[r.id].lastUpdate = r.obj.lastUpdate
             THEN /\ objects' = [objects EXCEPT
                                   ![r.id].destinations =
                                       Append(r.obj.destinations,
                                              StoreDestinationStatus(d, s.status, "")),
                                   ![r.id].lastUpdate = clock + 1]
                  /\ clock' = clock + 1
                  /\ th' = [th EXCEPT ![t] = NextWanted(s, s.j + 1)]
             ELSE /\ th' = [th EXCEPT ![t] =
                              IF s.i + 1 < maxUpdateTries
                                THEN [s EXCEPT !.pc = "RetrieveObjects_fetch", !.i = s.i + 1]
                                ELSE Returned("RetrieveObjects", 0, <<>>, "update")]
                  /\ UNCHANGED <<objects, clock>>
        /\ UNCHANGED <<destinations, files, calls, nonObjVars>>

\* UpdateObjectDeliveryStatus, the loop over the fetched destinations: the
\* first entry of the destination gets the message (if one is given or the
\* entry is in Error) and the status (if one is given); allConsumed tells
\* whether every other entry is Consumed.
DeliveryStatusOf(dests, status, message, destType, destID) ==
    LET hit == {n \in 1..Len(dests) : /\ dests[n].destination.destType = destType
                                      /\ dests[n].destination.destID = destID}
        m == IF hit = {} THEN 0 ELSE CHOOSE n \in hit : \A k \in hit : n <= k
        upd(d) == [d EXCEPT !.message = IF message # "" \/ d.status = "Error" THEN message ELSE @,
                            !.status = IF status # "" THEN status ELSE @]
    IN  [found |-> hit # {},
         dests |-> [n \in 1..Len(dests) |-> IF n = m THEN upd(dests[n]) ELSE dests[n]],
         allConsumed |-> \A n \in 1..Len(dests) : n = m \/ dests[n].status = "Consumed"]

\* The thread after UpdateObjectDeliveryStatus returned before its update; it
\* keeps the arguments of the call.
DeliveryStatusReturned(s, err) ==
    [Returned("UpdateObjectDeliveryStatus", 0, <<>>, err) EXCEPT
       !.id = s.id, !.status = s.status, !.message = s.message,
       !.destType = s.destType, !.destID = s.destID]

\* UpdateObjectDeliveryStatus that sets the expiration on any Consumed report.
DeliveryStatusFetchAnyConsumed(s) ==
    LET o == objects[s.id]
        c == DeliveryStatusOf(o.destinations, s.status, s.message, s.destType, s.destID)
    IN  IF ~o.exists THEN DeliveryStatusReturned(s, "retrieve")
        ELSE IF ~c.found THEN DeliveryStatusReturned(s, "destination")
        ELSE [s EXCEPT !.pc = "DeliveryStatus_update",
                       !.res = [o EXCEPT !.destinations = c.dests],
                       !.expire = /\ o.md.autoDelete
                                  /\ s.status = "Consumed"
                                  /\ o.md.expiration = ""]

\* UpdateObjectDeliveryStatus that does not look whether an entry matched.
DeliveryStatusFetchUnchecked(s) ==
    LET o == objects[s.id]
        c == DeliveryStatusOf(o.destinations, s.status, s.message, s.destType, s.destID)
    IN  IF ~o.exists THEN DeliveryStatusReturned(s, "retrieve")
        ELSE [s EXCEPT !.pc = "DeliveryStatus_update",
                       !.res = [o EXCEPT !.destinations = c.dests],
                       !.expire = /\ o.md.autoDelete
                                  /\ s.status = "Consumed"
                                  /\ c.allConsumed
                                  /\ o.md.expiration = ""]

\* UpdateObjectDeliveryStatus, one fetch of the loop and what follows it up to
\* the update: the thread after it.
DeliveryStatusFetch(s) ==
    LET o == objects[s.id]
        c == DeliveryStatusOf(o.destinations, s.status, s.message, s.destType, s.destID)
    IN  IF ~o.exists THEN DeliveryStatusReturned(s, "retrieve")
        ELSE IF ~c.found THEN DeliveryStatusReturned(s, "destination")
        ELSE [s EXCEPT !.pc = "DeliveryStatus_update",
                       !.res = [o EXCEPT !.destinations = c.dests],
                       !.expire = /\ o.md.autoDelete
                                  /\ s.status = "Consumed"
                                  /\ c.allConsumed
                                  /\ o.md.expiration = ""]

UpdateObjectDeliveryStatus(t, status, message, id, destType, destID) ==
    /\ MayCall(t)
    /\ calls' = calls + 1
    /\ th' = [th EXCEPT ![t] =
                IF status = "" /\ message = ""
                  THEN DeliveryStatusReturned([Idle EXCEPT !.id = id, !.destType = destType,
                                                           !.destID = destID], "")
                  ELSE DeliveryStatusFetch(
                         [Idle EXCEPT !.op = "UpdateObjectDeliveryStatus", !.id = id,
                                      !.status = status, !.message = message,
                                      !.destType = destType, !.destID = destID])]
    /\ UNCHANGED <<objects, destinations, clock, files, nonObjVars>>

\* UpdateObjectDeliveryStatus, the fetch of a later try.
DeliveryStatusRefetch(t) ==
    /\ th[t].pc = "DeliveryStatus_fetch"
    /\ th' = [th EXCEPT ![t] = DeliveryStatusFetch(th[t])]
    /\ UNCHANGED <<objects, destinations, clock, files, calls, nonObjVars>>

\* UpdateObjectDeliveryStatus with an update filtered on _id alone.
DeliveryStatusUpdateUnguarded(t) ==
    LET s == th[t]
    IN  /\ s.pc = "DeliveryStatus_update"
        /\ clock < MaxClock
        /\ objects[s.id].exists
        /\ objects' = [objects EXCEPT
                         ![s.id].destinations = s.res.destinations,
                         ![s.id].md.expiration = IF s.expire THEN "now+1h" ELSE @,
                         ![s.id].lastUpdate = clock + 1]
        /\ clock' = clock + 1
        /\ th' = [th EXCEPT ![t] =
                    [Returned("UpdateObjectDeliveryStatus", 0, <<>>, "") EXCEPT
                       !.i = s.i, !.status = s.status,
                       !.destType = s.destType, !.destID = s.destID, !.id = s.id]]
        /\ UNCHANGED <<destinations, files, calls, nonObjVars>>

\* UpdateObjectDeliveryStatus whose loop has no limit on its tries.
DeliveryStatusUpdateUnlimited(t) ==
    LET s == th[t]
    IN  /\ s.pc = "DeliveryStatus_update"
        /\ clock < MaxClock
        /\ IF objects[s.id].exists /\ objects[s.id].lastUpdate = s.res.lastUpdate
             THEN /\ objects' = [objects EXCEPT
                                   ![s.id].destinations = s.res.destinations,
                                   ![s.id].md.expiration = IF s.expire THEN "now+1h" ELSE @,
                                   ![s.id].lastUpdate = clock + 1]
                  /\ clock' = clock + 1
                  /\ th' = [th EXCEPT ![t] =
                              [Returned("UpdateObjectDeliveryStatus", 0, <<>>, "") EXCEPT
                                 !.i = s.i, !.status = s.status,
                                 !.destType = s.destType, !.destID = s.destID, !.id = s.id]]
             ELSE /\ th' = [th EXCEPT ![t] =
                              [s EXCEPT !.pc = "DeliveryStatus_fetch", !.i = s.i + 1]]
                  /\ UNCHANGED <<objects, clock>>
        /\ UNCHANGED <<destinations, files, calls, nonObjVars>>

\* UpdateObjectDeliveryStatus, the update: the list (and the expiration, one
\* hour from now) is written if last-update is still the fetched one.
DeliveryStatusUpdate(t) ==
    LET s == th[t]
    IN  /\ s.pc = "DeliveryStatus_update"
        /\ clock < MaxClock
        /\ IF objects[s.id].exists /\ objects[s.id].lastUpdate = s.res.lastUpdate
             THEN /\ objects' = [objects EXCEPT
                                   ![s.id].destinations = s.res.destinations,
                                   ![s.id].md.expiration = IF s.expire THEN "now+1h" ELSE @,
                                   ![s.id].lastUpdate = clock + 1]
                  /\ clock' = clock + 1
                  /\ th' = [th EXCEPT ![t] =
                              [Returned("UpdateObjectDeliveryStatus", 0, <<>>, "") EXCEPT
                                 !.i = s.i, !.status = s.status,
                                 !.destType = s.destType, !.destID = s.destID, !.id = s.id]]
             ELSE /\ th' = [th EXCEPT ![t] =
                              IF s.i + 1 < maxUpdateTries
                                THEN [s EXCEPT !.pc = "DeliveryStatus_fetch", !.i = s.i + 1]
                                ELSE Returned("UpdateObjectDeliveryStatus", 0, <<>>, "update")]
                  /\ UNCHANGED <<objects, clock>>
        /\ UNCHANGED <<destinations, files, calls, nonObjVars>>

\* UpdateObjectDelivering, one fetch of the loop: every entry becomes Delivering.
DeliveringFetch(s) ==
    LET o == objects[s.id]
    IN  IF ~o.exists THEN Returned("UpdateObjectDelivering", 0, <<>>, "retrieve")
        ELSE [s EXCEPT !.pc = "Delivering_update",
                       !.res = [o EXCEPT !.destinations =
                                  [n \in 1..Len(o.destinations) |->
                                     [o.destinations[n] EXCEPT !.status = "Delivering"]]]]

UpdateObjectDelivering(t, id) ==
    /\ MayCall(t)
    /\ calls' = calls + 1
    /\ th' = [th EXCEPT ![t] =
                DeliveringFetch([Idle EXCEPT !.op = "UpdateObjectDelivering", !.id = id])]
    /\ UNCHANGED <<objects, destinations, clock, files, nonObjVars>>

\* UpdateObjectDelivering, the fetch of a later try.
DeliveringRefetch(t) ==
    /\ th[t].pc = "Delivering_fetch"
    /\ th' = [th EXCEPT ![t] = DeliveringFetch(th[t])]
    /\ UNCHANGED <<objects, destinations, clock, files, calls, nonObjVars>>

\* UpdateObjectDelivering, the update guarded by last-update.
DeliveringUpdate(t) ==
    LET s == th[t]
    IN  /\ s.pc = "Delivering_update"
        /\ clock < MaxClock
        /\ IF objects[s.id].exists /\ objects[s.id].lastUpdate = s.res.lastUpdate
             THEN /\ objects' = [objects EXCEPT ![s.id].destinations = s.res.destinations,
                                                ![s.id].lastUpdate = clock + 1]
                  /\ clock' = clock + 1
                  /\ th' = [th EXCEPT ![t] = Returned("UpdateObjectDelivering", 0, <<>>, "")]
             ELSE /\ th' = [th EXCEPT ![t] =
                              IF s.i + 1 < maxUpdateTries
                                THEN [s EXCEPT !.pc = "Delivering_fetch", !.i = s.i + 1]
                                ELSE Returned("UpdateObjectDelivering", 0, <<>>, "update")]
                  /\ UNCHANGED <<objects, clock>>
        /\ UNCHANGED <<destinations, files, calls, nonObjVars>>

(***************************************************************************)
(* AppendObjectData called from several threads.  The handler takes no     *)
(* lock on the handle it gets from openFiles, so the calls share the       *)
(* handle's offset, chunk map and staging file.  A call is split where it  *)
(* has compared its offset with the handle's offset: the comparison is one *)
(* step, the write with the drain loop, or the insertion into the chunk    *)
(* map, is the next.  Chunks here are neither first nor last, and their    *)
(* declared length is the length of the reader's content.                  *)
(***************************************************************************)

\* getFileHandle, the read of the chunk, and the comparison of the offsets;
\* h0 keeps the handle as the call found it.
AppendObjectDataStart(t, id, rd, offset) ==
    /\ MayCall(t)
    /\ calls' = calls + 1
    /\ th' = [th EXCEPT ![t] =
                IF ~openFiles[id].open
                  THEN Returned("AppendObjectData", 0, <<>>, "nofile")
                  ELSE [Idle EXCEPT !.op = "AppendObjectData", !.id = id, !.data = rd,
                          !.offset = offset, !.h0 = openFiles[id],
                          !.pc = IF offset = openFiles[id].offset
                                   THEN "Append_write" ELSE "Append_buffer"]]
    /\ UNCHANGED <<openFiles, files, aret, up, leaderVars, objects, destinations, fs, restVars>>

\* The thread after its AppendObjectData returned.
AppendReturned(s, err) ==
    [Returned("AppendObjectData", 0, <<>>, err) EXCEPT
       !.id = s.id, !.data = s.data, !.offset = s.offset, !.h0 = s.h0]

\* The in-order branch: the write, the advance of the offset and the drain
\* loop, on the handle as it is now; putFileHandle; return.
AppendObjectDataWrite(t) ==
    LET s == th[t]
    IN  /\ s.pc = "Append_write"
        /\ openFiles' = [openFiles EXCEPT ![s.id] = WriteAndDrain(@, s.data)]
        /\ th' = [th EXCEPT ![t] = AppendReturned(s, "")]
        /\ UNCHANGED <<files, aret, up, calls, leaderVars, objects, destinations, fs, restVars>>

\* The out-of-order branch: the chunk goes into the map of the handle as it
\* is now, unless the map is full; putFileHandle; return.
AppendObjectDataBuffer(t) ==
    LET s == th[t]
        b == BufferChunk(openFiles[s.id], s.offset, s.data)
    IN  /\ s.pc = "Append_buffer"
        /\ openFiles' = [openFiles EXCEPT ![s.id] = b.h]
        /\ th' = [th EXCEPT ![t] = AppendReturned(s, b.err)]
        /\ UNCHANGED <<files, aret, up, calls, leaderVars, objects, destinations, fs, restVars>>

\* One AppendObjectData call of an uploader on thread t, run to its return;
\* the thread keeps the key, the flags and the error of the call.
UploadChunk(t, id, rd, offset, isFirstChunk, isLastChunk) ==
    LET a == AppendObjectData(openFiles[id], files[id], rd, FALSE, Len(rd), offset,
                              isFirstChunk, isLastChunk)
    IN  /\ MayCall(t)
        /\ calls' = calls + 1
        /\ openFiles' = [openFiles EXCEPT ![id] = a.h]
        /\ files' = [files EXCEPT ![id] = a.f]
        /\ th' = [th EXCEPT ![t] =
                    [Returned("AppendObjectData", 0, <<>>, a.err) EXCEPT
                       !.id = id, !.offset = offset, !.last = isLastChunk]]
        /\ UNCHANGED <<aret, up, leaderVars, objects, destinations, fs, restVars>>

\* RetrieveObjectData: without a published blob (nil, nil); else the blob is
\* opened and its handle is put into openFiles under the key.  val tells
\* whether the caller holds a reader, id is the id of the reader's file.
RetrieveObjectData(t, id) ==
    /\ MayCall(t)
    /\ calls' = calls + 1
    /\ openFiles' = IF files[id].exists THEN [openFiles EXCEPT ![id] = openFile]
                                        ELSE openFiles
    /\ th' = [th EXCEPT ![t] =
                [Returned("RetrieveObjectData", IF files[id].exists THEN 1 ELSE 0, <<>>, "")
                   EXCEPT !.id = id]]
    /\ UNCHANGED <<files, aret, up, leaderVars, objects, destinations, fs, restVars>>

\* CloseDataReader of the reader the thread got from RetrieveObjectData: the
\* file is closed, and the entry openFiles has under the file's id, if any,
\* is removed.
CloseDataReader(t) ==
    /\ MayCall(t)
    /\ th[t].op = "RetrieveObjectData" /\ th[t].val = 1
    /\ calls' = calls + 1
    /\ openFiles' = IF openFiles[th[t].id].open
                      THEN [openFiles EXCEPT ![th[t].id] = NoHandle]
                      ELSE openFiles
    /\ th' = [th EXCEPT ![t] =
                [Returned("CloseDataReader", 0, <<>>, "") EXCEPT !.id = th[t].id]]
    /\ UNCHANGED <<files, aret, up, leaderVars, objects, destinations, fs, restVars>>

\* The uploader on thread t has an upload of the key in progress: its last
\* call was an AppendObjectData that succeeded and was not the last chunk.
UploadInProgress(t, id) ==
    /\ th[t].pc = "idle" /\ th[t].op = "AppendObjectData"
    /\ th[t].id = id /\ th[t].err = "" /\ ~th[t].last

\* The handle two calls leave when the first runs to its end before the
\* second starts.
SerialAppend(h, a, b) ==
    LET h1 == AppendObjectData(h, NoFile, a.data, FALSE, Len(a.data), a.offset, FALSE, FALSE).h
    IN  AppendObjectData(h1, NoFile, b.data, FALSE, Len(b.data), b.offset, FALSE, FALSE).h

(***************************************************************************)
(* The file payload backend (package dataURI)                              *)
(*                                                                         *)
(* One data URI.  The file system has two names, the path of the URI and   *)
(* the path with ".tmp"; a name refers to an inode (0: no such name) and   *)
(* fs.data[n] is the content of inode n.  An open file refers to its inode, *)
(* whatever happens to the name afterwards.  A call takes one step per     *)
(* system call: open, write, rename.  Failures of open are not modelled.   *)
(***************************************************************************)
NoFiles == [final |-> 0, tmp |-> 0, data |-> <<>>]

URIs == {"file:///p", "http:///p"}

\* url.Parse(uri) succeeds and the scheme is "file".
ValidURI(uri) == uri = "file:///p"

\* The contents a caller's reader delivers.
FileData == {<<1>>, <<2, 2>>}

\* file.Seek(offset) and the write of bytes: the content after it; a write
\* past the end leaves a hole of zero bytes.
WriteAt(content, offset, bytes) ==
    LET n == IF Len(content) > offset + Len(bytes) THEN Len(content) ELSE offset + Len(bytes)
    IN  [k \in 1..n |-> IF k > offset /\ k <= offset + Len(bytes) THEN bytes[k - offset]
                        ELSE IF k <= Len(content) THEN content[k] ELSE 0]

\* os.OpenFile(path + ".tmp", O_WRONLY|O_CREATE): the file system after it.
OpenTmp == IF fs.tmp # 0 THEN fs
           ELSE [fs EXCEPT !.tmp = Len(fs.data) + 1, !.data = Append(@, <<>>)]

\* What GetData reads: the content under the path of the URI.
Published ==
    IF fs.final = 0 THEN [exists |-> FALSE, data |-> <<>>]
    ELSE [exists |-> TRUE, data |-> fs.data[fs.final]]

\* The thread after its call of the backend returned.
FileReturned(s, val, err) ==
    [Returned(s.op, val, <<>>, err) EXCEPT !.data = s.data, !.last = s.last]

\* AppendData up to the open of the staging file.  The reader delivers rd and
\* then fails if rdErr.
AppendData(t, uri, rd, rdErr, dataLength, offset, isLastChunk) ==
    /\ MayCall(t)
    /\ calls' = calls + 1
    /\ IF ~ValidURI(uri)
         THEN /\ th' = [th EXCEPT ![t] = Returned("AppendData", 0, <<>>, "Invalid data URI")]
              /\ UNCHANGED fs
         ELSE /\ fs' = OpenTmp
              /\ th' = [th EXCEPT ![t] =
                          [Idle EXCEPT !.pc = "AppendData_write", !.op = "AppendData",
                                       !.data = rd, !.rdErr = rdErr, !.dataLength = dataLength,
                                       !.offset = offset, !.last = isLastChunk,
                                       !.fd = OpenTmp.tmp]]
    /\ UNCHANGED nonFsVars

\* AppendData, the seek and io.Copy into the open file, and the checks of
\* the copy: without isLastChunk the call returns here.
AppendDataWrite(t) ==
    LET s == th[t]
    IN  /\ s.pc = "AppendData_write"
        /\ fs' = [fs EXCEPT !.data[s.fd] = WriteAt(@, s.offset, s.data)]
        /\ th' = [th EXCEPT ![t] =
                    IF s.rdErr THEN FileReturned(s, 0, "Failed to write to file")
                    ELSE IF Len(s.data) # s.dataLength
                      THEN FileReturned(s, 0, "Failed to write all the data to file")
                    ELSE IF s.last THEN [s EXCEPT !.pc = "AppendData_rename"]
                    ELSE FileReturned(s, 0, "")]
        /\ UNCHANGED <<calls, nonFsVars>>

\* os.Rename(path + ".tmp", path): the name of the staging file, whatever
\* inode it refers to now, replaces the published name.
Rename(t) ==
    LET s == th[t]
    IN  /\ IF fs.tmp = 0
             THEN /\ th' = [th EXCEPT ![t] = FileReturned(s, 0, "Failed to rename data file")]
                  /\ UNCHANGED fs
             ELSE /\ fs' = [fs EXCEPT !.final = fs.tmp, !.tmp = 0]
                  /\ th' = [th EXCEPT ![t] = FileReturned(s, Len(s.data), "")]
        /\ UNCHANGED <<calls, nonFsVars>>

AppendDataRename(t) ==
    /\ th[t].pc = "AppendData_rename"
    /\ Rename(t)

\* StoreData up to the open of the staging file.
StoreData(t, uri, rd, rdErr, dataLength) ==
    /\ MayCall(t)
    /\ calls' = calls + 1
    /\ IF ~ValidURI(uri)
         THEN /\ th' = [th EXCEPT ![t] = Returned("StoreData", 0, <<>>, "Invalid data URI")]
              /\ UNCHANGED fs
         ELSE /\ fs' = OpenTmp
              /\ th' = [th EXCEPT ![t] =
                          [Idle EXCEPT !.pc = "StoreData_write", !.op = "StoreData",
                                       !.data = rd, !.rdErr = rdErr, !.dataLength = dataLength,
                                       !.fd = OpenTmp.tmp]]
    /\ UNCHANGED nonFsVars

\* StoreData, the seek to 0 and io.Copy, and the checks of the copy.
StoreDataWrite(t) ==
    LET s == th[t]
    IN  /\ s.pc = "StoreData_write"
        /\ fs' = [fs EXCEPT !.data[s.fd] = WriteAt(@, 0, s.data)]
        /\ th' = [th EXCEPT ![t] =
                    IF s.rdErr THEN FileReturned(s, 0, "Failed to write to file")
                    ELSE IF Len(s.data) # s.dataLength /\ s.dataLength # 0
                      THEN FileReturned(s, 0, "Failed to write all the data to file")
                    ELSE [s EXCEPT !.pc = "StoreData_rename"]]
        /\ UNCHANGED <<calls, nonFsVars>>

StoreDataRename(t) ==
    /\ th[t].pc = "StoreData_rename"
    /\ Rename(t)

\* GetData: os.Open of the path; the caller reads the reader to its end.
GetData(t, uri) ==
    /\ MayCall(t)
    /\ calls' = calls + 1
    /\ th' = [th EXCEPT ![t] =
                IF ~ValidURI(uri) THEN Returned("GetData", 0, <<>>, "Invalid data URI")
                ELSE IF ~Published.exists THEN Returned("GetData", 0, <<>>, "Failed to open file")
                ELSE [Returned("GetData", 0, <<>>, "") EXCEPT !.data = Published.data]]
    /\ UNCHANGED <<fs, nonFsVars>>

\* file.ReadAt(result, offset) on content d with a buffer of size bytes: the
\* bytes from the offset fill the start of the buffer, the rest stays zero; n
\* is how many were read, and the error is io.EOF when n < size.
ReadAt(d, size, offset) ==
    LET n == IF offset >= Len(d) THEN 0 ELSE Min2(size, Len(d) - offset)
    IN  [n |-> n,
         result |-> [i \in 1..size |-> IF i <= n THEN d[offset + i] ELSE 0],
         eof |-> n < size]

\* GetDataChunk: the buffer of size bytes is returned whole, with n and eof
\* (the thread keeps size and offset).
GetDataChunk(t, uri, size, offset) ==
    /\ MayCall(t)
    /\ calls' = calls + 1
    /\ th' = [th EXCEPT ![t] =
                IF ~ValidURI(uri)
                  THEN Returned("GetDataChunk", 0, <<>>, "Invalid data URI")
                ELSE IF ~Published.exists
                  THEN [Returned("GetDataChunk", 0, <<>>, "Failed to open file")
                          EXCEPT !.eof = TRUE]
                ELSE LET r == ReadAt(Published.data, size, offset)
                     IN  [Returned("GetDataChunk", r.n, <<>>, "") EXCEPT
                            !.data = r.result, !.size = size, !.offset = offset,
                            !.eof = IF r.n = size
                                      THEN Len(Published.data) = offset + size
                                      ELSE TRUE]]
    /\ UNCHANGED <<fs, nonFsVars>>

\* DeleteStoredData for which a missing file is an error.
DeleteStoredDataStrict(t, uri) ==
    /\ MayCall(t)
    /\ calls' = calls + 1
    /\ IF ~ValidURI(uri)
         THEN /\ th' = [th EXCEPT ![t] = Returned("DeleteStoredData", 0, <<>>, "Invalid data URI")]
              /\ UNCHANGED fs
         ELSE /\ fs' = [fs EXCEPT !.final = 0]
              /\ th' = [th EXCEPT ![t] =
                          Returned("DeleteStoredData", 0, <<>>,
                                   IF fs.final = 0 THEN "Failed to delete data" ELSE "")]
    /\ UNCHANGED nonFsVars

\* DeleteStoredData: os.Remove of the path; a missing file is no error.
DeleteStoredData(t, uri) ==
    /\ MayCall(t)
    /\ calls' = calls + 1
    /\ IF ~ValidURI(uri)
         THEN /\ th' = [th EXCEPT ![t] = Returned("DeleteStoredData", 0, <<>>, "Invalid data URI")]
              /\ UNCHANGED fs
         ELSE /\ fs' = [fs EXCEPT !.final = 0]
              /\ th' = [th EXCEPT ![t] = Returned("DeleteStoredData", 0, <<>>, "")]
    /\ UNCHANGED nonFsVars

\* MongoStorage.DeleteStoredData: removeFile of the object's blob; its error,
\* if any, is returned.  Removing a blob that does not exist is no error.
MongoDeleteStoredData(t, id) ==
    /\ MayCall(t)
    /\ calls' = calls + 1
    /\ files' = [files EXCEPT ![id] = NoFile]
    /\ th' = [th EXCEPT ![t] = Returned("MongoStorage.DeleteStoredData", 0, <<>>, "")]
    /\ UNCHANGED <<objects, destinations, clock, nonObjVars>>

\* ReadObjectData that reads size bytes whatever is left of the blob.
ReadObjectDataUnclipped(t, id, size, offset) ==
    /\ MayCall(t)
    /\ calls' = calls + 1
    /\ th' = [th EXCEPT ![t] =
                IF ~files[id].exists
                  THEN [Returned("ReadObjectData", 0, <<>>, "open") EXCEPT !.eof = TRUE]
                ELSE IF offset >= Len(files[id].data)
                  THEN [Returned("ReadObjectData", 0, <<>>, "") EXCEPT
                          !.eof = TRUE, !.id = id, !.size = size, !.offset = offset]
                ELSE LET n == Min2(size, Len(files[id].data) - offset)
                     IN  [Returned("ReadObjectData", n, <<>>, "") EXCEPT
                            !.data = [i \in 1..size |->
                                        IF i <= n THEN files[id].data[offset + i] ELSE 0],
                            !.eof = (Len(files[id].data) - offset = n),
                            !.id = id, !.size = size, !.offset = offset]]
    /\ UNCHANGED <<objects, destinations, clock, files, nonObjVars>>

\* ReadObjectData: at or past the end of the blob nothing is read; else the
\* blob is read from the offset into a buffer of min(size, what is left)
\* bytes (the thread keeps id, size and offset).
ReadObjectData(t, id, size, offset) ==
    /\ MayCall(t)
    /\ calls' = calls + 1
    /\ th' = [th EXCEPT ![t] =
                IF ~files[id].exists
                  THEN [Returned("ReadObjectData", 0, <<>>, "open") EXCEPT !.eof = TRUE]
                ELSE IF offset >= Len(files[id].data)
                  THEN [Returned("ReadObjectData", 0, <<>>, "") EXCEPT
                          !.eof = TRUE, !.id = id, !.size = size, !.offset = offset]
                ELSE LET s == Min2(size, Len(files[id].data) - offset)
                         b == SubSeq(files[id].data, offset + 1, offset + s)
                     IN  [Returned("ReadObjectData", Len(b), <<>>, "") EXCEPT
                            !.data = b,
                            !.eof = (Len(files[id].data) - offset = Len(b)),
                            !.id = id, !.size = size, !.offset = offset]]
    /\ UNCHANGED <<objects, destinations, clock, files, nonObjVars>>

(***************************************************************************)
(* The webhooks collection: the document of one (orgID, objectType)        *)
(***************************************************************************)
\* The URLs callers register: two that differ in case only, and another.
HookURLs == {"http://a", "http://A", "http://b"}

\* strings.EqualFold on the URLs.
EqualFold(u, v) == u = v \/ {u, v} = {"http://a", "http://A"}

\* AddWebhook, one fetch of the loop that appends the URL whether or not the
\* list holds it.
AddWebhookFetchAlways(s) ==
    IF ~webhooks.exists
      THEN [s EXCEPT !.pc = "AddWebhook_insert"]
      ELSE [s EXCEPT !.pc = "AddWebhook_update",
                     !.result = [webhooks EXCEPT !.hooks = Append(@, s.url)]]

\* AddWebhook, one fetch of the loop and what follows it up to the next
\* request: without a document the insert is next; a list that holds the URL
\* ends the call; else the update of the list with the URL appended is next.
AddWebhookFetch(s) ==
    IF ~webhooks.exists
      THEN [s EXCEPT !.pc = "AddWebhook_insert"]
    ELSE IF \E n \in 1..Len(webhooks.hooks) : webhooks.hooks[n] = s.url
      THEN [Returned("AddWebhook", 0, <<>>, "") EXCEPT !.url = s.url, !.i = s.i]
    ELSE [s EXCEPT !.pc = "AddWebhook_update",
                   !.result = [webhooks EXCEPT !.hooks = Append(@, s.url)]]

\* The thread after a try of the loop met a conflict: the next try, or the
\* failure after maxUpdateTries tries.  A thread that returned keeps the URL
\* and the index of its last try.
NextTry(s, fetch, op) ==
    IF s.i + 1 < maxUpdateTries
      THEN [s EXCEPT !.pc = fetch, !.i = s.i + 1]
      ELSE [Returned(op, 0, <<>>, "update") EXCEPT !.url = s.url, !.i = s.i]

AddWebhook(t, url) ==
    /\ MayCall(t)
    /\ calls' = calls + 1
    /\ th' = [th EXCEPT ![t] =
                AddWebhookFetch([Idle EXCEPT !.op = "AddWebhook", !.url = url])]
    /\ UNCHANGED <<webhooks, clock, nonHookVars>>

\* AddWebhook, the fetch of a later try.
AddWebhookRefetch(t) ==
    /\ th[t].pc = "AddWebhook_fetch"
    /\ th' = [th EXCEPT ![t] = AddWebhookFetch(th[t])]
    /\ UNCHANGED <<webhooks, clock, calls, nonHookVars>>

\* AddWebhook, the insert of the document with the URL as its only hook; a
\* document inserted meanwhile makes it a duplicate and the loop continues.
AddWebhookInsert(t) ==
    /\ th[t].pc = "AddWebhook_insert"
    /\ IF ~webhooks.exists
         THEN /\ webhooks' = [exists |-> TRUE, hooks |-> <<th[t].url>>, lastUpdate |-> 0]
              /\ th' = [th EXCEPT ![t] =
                          [Returned("AddWebhook", 0, <<>>, "") EXCEPT
                             !.url = th[t].url, !.i = th[t].i]]
         ELSE /\ th' = [th EXCEPT ![t] = NextTry(th[t], "AddWebhook_fetch", "AddWebhook")]
              /\ UNCHANGED webhooks
    /\ UNCHANGED <<clock, calls, nonHookVars>>

\* The update of the hooks by a handler of the webhooks, guarded by the
\* last-update that was fetched.
HooksUpdate(t, pc, fetch, op) ==
    LET s == th[t]
    IN  /\ s.pc = pc
        /\ clock < MaxClock
        /\ IF webhooks.exists /\ webhooks.lastUpdate = s.result.lastUpdate
             THEN /\ webhooks' = [webhooks EXCEPT !.hooks = s.result.hooks,
                                                  !.lastUpdate = clock + 1]
                  /\ clock' = clock + 1
                  /\ th' = [th EXCEPT ![t] =
                              [Returned(op, 0, <<>>, "") EXCEPT !.url = s.url, !.i = s.i]]
             ELSE /\ th' = [th EXCEPT ![t] = NextTry(s, fetch, op)]
                  /\ UNCHANGED <<webhooks, clock>>
        /\ UNCHANGED <<calls, nonHookVars>>

\* AddWebhook, the update.
AddWebhookUpdate(t) == HooksUpdate(t, "AddWebhook_update", "AddWebhook_fetch", "AddWebhook")

\* DeleteWebhook, the list without its first hook that equals the URL under
\* case folding: the last hook takes its place.
WithoutHook(hooks, url) ==
    LET hit == {n \in 1..Len(hooks) : EqualFold(hooks[n], url)}
        m == CHOOSE n \in hit : \A k \in hit : n <= k
    IN  [n \in 1..(Len(hooks) - 1) |-> IF n = m THEN hooks[Len(hooks)] ELSE hooks[n]]

\* DeleteWebhook, one fetch of the loop and what follows it up to the update:
\* no document is an error, no hook to delete ends the call.
DeleteWebhookFetch(s) ==
    IF ~webhooks.exists
      THEN [Returned("DeleteWebhook", 0, <<>>, "fetch") EXCEPT !.url = s.url, !.i = s.i]
    ELSE IF \A n \in 1..Len(webhooks.hooks) : ~EqualFold(webhooks.hooks[n], s.url)
      THEN [Returned("DeleteWebhook", 0, <<>>, "") EXCEPT !.url = s.url, !.i = s.i]
    ELSE [s EXCEPT !.pc = "DeleteWebhook_update",
                   !.result = [webhooks EXCEPT !.hooks = WithoutHook(@, s.url)]]

DeleteWebhook(t, url) ==
    /\ MayCall(t)
    /\ calls' = calls + 1
    /\ th' = [th EXCEPT ![t] =
                DeleteWebhookFetch([Idle EXCEPT !.op = "DeleteWebhook", !.url = url])]
    /\ UNCHANGED <<webhooks, clock, nonHookVars>>

\* DeleteWebhook, the fetch of a later try.
DeleteWebhookRefetch(t) ==
    /\ th[t].pc = "DeleteWebhook_fetch"
    /\ th' = [th EXCEPT ![t] = DeleteWebhookFetch(th[t])]
    /\ UNCHANGED <<webhooks, clock, calls, nonHookVars>>

\* DeleteWebhook, the update.
DeleteWebhookUpdate(t) ==
    HooksUpdate(t, "DeleteWebhook_update", "DeleteWebhook_fetch", "DeleteWebhook")

(***************************************************************************)
(* The notifications collection                                            *)
(*                                                                         *)
(* Every handler makes one request to the database.  A row is a record of  *)
(* the key (the _id), the status and the resend time of the notification.  *)
(***************************************************************************)
\* common.Configuration.ResendInterval, in seconds.
ResendInterval == 1

\* The statuses of a notification that the queries name, and one they do not.
NotificationStatuses ==
    {"Update", "Received", "Consumed", "Getdata", "Data", "Delete", "Deleted",
     "ReceivedByDestination", "UpdatePending"}

\* The order in which fetchAll returns the rows of the collection.
RECURSIVE SeqOfRows(_)
SeqOfRows(rows) ==
    IF rows = {} THEN <<>>
    ELSE LET r == CHOOSE x \in rows : TRUE
         IN  <<r>> \o SeqOfRows(rows \ {r})

\* store.upsert on the notifications: a row with the _id is replaced, else
\* the row is inserted.
UpsertNotification(row) ==
    IF \E r \in notifications : r.key = row.key
      THEN (notifications \ {CHOOSE r \in notifications : r.key = row.key}) \cup {row}
      ELSE notifications \cup {row}

\* UpdateNotificationRecord that stores the resend time as it was passed.
UpdateNotificationRecordAsPassed(t, k, status, resendTime) ==
    /\ MayCall(t)
    /\ calls' = calls + 1
    /\ notifications' =
         UpsertNotification([key |-> k, status |-> status, resendTime |-> resendTime])
    /\ th' = [th EXCEPT ![t] =
                [Returned("UpdateNotificationRecord", 0, <<>>, "") EXCEPT
                   !.notification = [key |-> k, status |-> status,
                                     resendTime |-> resendTime]]]
    /\ UNCHANGED <<now, nonNotifVars>>

\* UpdateNotificationRecord: a zero resend time becomes now + 6 resend
\* intervals, and the row is upserted (the thread keeps the notification
\* that was passed).
UpdateNotificationRecord(t, k, status, resendTime) ==
    /\ MayCall(t)
    /\ calls' = calls + 1
    /\ notifications' =
         UpsertNotification([key |-> k, status |-> status,
                             resendTime |-> IF resendTime = 0
                                              THEN now + ResendInterval * 6
                                              ELSE resendTime])
    /\ th' = [th EXCEPT ![t] =
                [Returned("UpdateNotificationRecord", 0, <<>>, "") EXCEPT
                   !.notification = [key |-> k, status |-> status,
                                     resendTime |-> resendTime]]]
    /\ UNCHANGED <<now, nonNotifVars>>

\* UpdateNotificationResendTime: the resend time of the row with the _id
\* becomes now + 6 resend intervals; without the row the update fails.
UpdateNotificationResendTime(t, k) ==
    /\ MayCall(t)
    /\ calls' = calls + 1
    /\ IF \E r \in notifications : r.key = k
         THEN LET r == CHOOSE x \in notifications : x.key = k
              IN  /\ notifications' =
                       (notifications \ {r}) \cup
                          {[r EXCEPT !.resendTime = now + ResendInterval * 6]}
                  /\ th' = [th EXCEPT ![t] =
                              Returned("UpdateNotificationResendTime", 0, <<>>, "")]
         ELSE /\ th' = [th EXCEPT ![t] =
                          Returned("UpdateNotificationResendTime", 0, <<>>, "update")]
              /\ UNCHANGED notifications
    /\ UNCHANGED <<now, nonNotifVars>>

\* DeleteNotificationRecords: the rows of one _id, of one object, or of one
\* destination are removed; having removed nothing is not an error.
DeleteNotificationRecords(t, orgID, objectID, destType, destID) ==
    /\ MayCall(t)
    /\ calls' = calls + 1
    /\ notifications' =
         {r \in notifications :
            ~ IF objectID # ""
                THEN IF destType # "" /\ destID # ""
                       THEN r.key = [org |-> orgID, objectID |-> objectID,
                                     destType |-> destType, destID |-> destID]
                       ELSE r.key.org = orgID /\ r.key.objectID = objectID
                ELSE /\ r.key.org = orgID
                     /\ r.key.destType = destType /\ r.key.destID = destID}
    /\ th' = [th EXCEPT ![t] = Returned("DeleteNotificationRecords", 0, <<>>, "")]
    /\ UNCHANGED <<now, nonNotifVars>>

\* The query with no destination given that selects the rows whose resend
\* time is before now.
ResendQueryBefore(r) ==
    \/ r.status = "Getdata"
    \/ /\ r.resendTime < now
       /\ r.status \in {"Update", "Received", "Consumed", "Data", "Delete", "Deleted"}

\* RetrieveNotifications: the query with no destination given.
ResendQuery(r) ==
    \/ r.status = "Getdata"
    \/ /\ r.resendTime <= now
       /\ r.status \in {"Update", "Received", "Consumed", "Data", "Delete", "Deleted"}

\* RetrieveNotifications: the query with a destination given.
DestinationQuery(r, orgID, destType, destID, retrieveReceived) ==
    /\ r.status \in IF retrieveReceived
                      THEN {"Update", "Received", "Consumed", "Getdata", "Data",
                            "ReceivedByDestination", "Delete", "Deleted"}
                      ELSE {"Update", "Received", "Consumed", "Getdata", "Delete", "Deleted"}
    /\ r.key.org = orgID
    /\ r.key.destID = destID
    /\ r.key.destType = destType

\* RetrieveNotifications: the rows the query selects are returned (the thread
\* keeps the arguments of the call).
RetrieveNotifications(t, orgID, destType, destID, retrieveReceived) ==
    /\ MayCall(t)
    /\ calls' = calls + 1
    /\ th' = [th EXCEPT ![t] =
                [Returned("RetrieveNotifications", 0,
                          SeqOfRows({r \in notifications :
                                       IF destType = "" /\ destID = ""
                                         THEN ResendQuery(r)
                                         ELSE DestinationQuery(r, orgID, destType, destID,
                                                               retrieveReceived)}),
                          "")
                   EXCEPT !.id = orgID, !.destType = destType, !.destID = destID,
                          !.retrieveReceived = retrieveReceived]]
    /\ UNCHANGED <<notifications, now, nonNotifVars>>

(***************************************************************************)
(* Organizations                                                           *)
(*                                                                         *)
(* The keys of the objects and the destinations of the model are those of  *)
(* the organization "O"; the notifications and the messaging groups carry  *)
(* their organization.  DeleteOrganization makes four requests, one per    *)
(* collection.                                                             *)
(***************************************************************************)
Orgs == {"O", "P"}

\* metadata.destination-org-id of the object with the key: the first
\* component of the collection id.
DestOrgID == [id \in Keys |-> "O"]

\* StoreOrgToMessagingGroup: one upsert keyed by the organization.
StoreOrgToMessagingGroup(t, orgID, messagingGroup) ==
    /\ MayCall(t)
    /\ calls' = calls + 1
    /\ messagingGroups' = {g \in messagingGroups : g.id # orgID}
                            \cup {[id |-> orgID, groupName |-> messagingGroup]}
    /\ th' = [th EXCEPT ![t] =
                [Returned("StoreOrgToMessagingGroup", 0, <<>>, "") EXCEPT !.id = orgID]]
    /\ UNCHANGED <<notifications, now, webhooks, clock, files, objects, destinations,
                   baseVars>>

\* DeleteOrganization, DeleteOrgToMessagingGroup: the messaging group of the
\* organization is removed.
DeleteOrganization(t, orgID) ==
    /\ MayCall(t)
    /\ calls' = calls + 1
    /\ messagingGroups' = {g \in messagingGroups : g.id # orgID}
    /\ th' = [th EXCEPT ![t] =
                [Idle EXCEPT !.pc = "DeleteOrganization_destinations",
                             !.op = "DeleteOrganization", !.id = orgID]]
    /\ UNCHANGED <<notifications, now, webhooks, clock, files, objects, destinations,
                   baseVars>>

\* DeleteOrganization, the removal of the destinations of the organization.
DeleteOrganizationDestinations(t) ==
    /\ th[t].pc = "DeleteOrganization_destinations"
    /\ destinations' = IF th[t].id = "O" THEN <<>> ELSE destinations
    /\ th' = [th EXCEPT ![t].pc = "DeleteOrganization_notifications"]
    /\ UNCHANGED <<objects, clock, files, calls, nonObjVars>>

\* DeleteOrganization, the removal of the notifications of the organization.
DeleteOrganizationNotifications(t) ==
    /\ th[t].pc = "DeleteOrganization_notifications"
    /\ notifications' = {r \in notifications : r.key.org # th[t].id}
    /\ th' = [th EXCEPT ![t].pc = "DeleteOrganization_objects"]
    /\ UNCHANGED <<now, calls, nonNotifVars>>

\* DeleteOrganization, the removal of the objects of the organization; the
\* payloads are not touched.
DeleteOrganizationObjects(t) ==
    /\ th[t].pc = "DeleteOrganization_objects"
    /\ objects' = [id \in Keys |->
                     IF DestOrgID[id] = th[t].id THEN NoObject ELSE objects[id]]
    /\ th' = [th EXCEPT ![t] =
                [Returned("DeleteOrganization", 0, <<>>, "") EXCEPT !.id = th[t].id]]
    /\ UNCHANGED <<destinations, clock, files, calls, nonObjVars>>

\* Three seconds of the wall clock pass (half of the six resend intervals).
Tick ==
    /\ now < MaxNow
    /\ now' = now + 3
    /\ UNCHANGED <<notifications, calls, th, nonNotifVars>>

NextUpload ==
    \/ \E id \in UploadKeys, total \in 1..MaxTotal :
         \E cuts \in SUBSET (1..(total - 1)) : StartUpload(id, total, cuts)
    \/ \E id \in UploadKeys : \E c \in up[id].todo : \E dl \in {0, c.len} : DeliverChunk(id, c, dl)

Init ==
    /\ leader = {}
    /\ clock = EpochTS
    /\ ret = NoCall
    /\ nInserted = 0
    /\ won = [v \in Versions |-> 0]
    /\ lastWinner = 0
    /\ files = [id \in Keys |-> NoFile]
    /\ openFiles = [id \in Keys |-> NoHandle]
    /\ aret = NoAppend
    /\ calls = 0
    /\ up = [id \in Keys |-> NoUpload]
    /\ objects = [id \in Keys |-> NoObject]
    /\ destinations = <<>>
    /\ th = [t \in Threads |-> Idle]
    /\ fs = NoFiles
    /\ notifications = NoNotifications
    /\ now = EpochTS
    /\ webhooks = NoWebhooks
    /\ messagingGroups = {}

NextLeader ==
    \/ \E n \in Nodes : InsertInitialLeader(n)
    \/ \E n \in Nodes : LeaderPeriodicUpdate(n)
    \/ \E n \in Nodes : RetrieveLeader(n)
    \/ \E n \in Nodes, v \in Versions : UpdateLeader(n, v)
    \/ \E n \in Nodes : ResignLeadership(n)

SpecLeader == Init /\ [][NextLeader]_vars

SpecUpload == Init /\ [][NextUpload]_vars

SpecAppend == Init /\ [][NextAppend]_vars

SpecOverflow == Init /\ [][NextOverflow]_vars

\* The callers of the counters: one object, stored with any expectedConsumers
\* up to MaxConsumers on the receiving side or at the origin.
NextCounters ==
    \/ \E t \in Threads, id \in UploadKeys, n \in 0..MaxConsumers,
          status \in {"ReadyToSend", "CompletelyReceived"} :
         StoreObject(t, id, [NoMeta EXCEPT !.expectedConsumers = n], <<>>, status)
    \/ \E t \in Threads : StoreObjectUpsert(t)
    \/ \E t \in Threads, id \in UploadKeys : DecrementAndReturnRemainingConsumers(t, id)
    \/ \E t \in Threads : DecrementFetch(t)
    \/ \E t \in Threads, id \in UploadKeys : ResetObjectRemainingConsumers(t, id)
    \/ \E t \in Threads : ResetUpdate(t)

SpecCounters == Init /\ [][NextCounters]_vars

\* The callers of the status operations: one object, stored live (not
\* deleted), active or inactive, with or without a payload.
NextStatus ==
    \/ \E t \in Threads, id \in UploadKeys, inactive \in BOOLEAN, data \in {<<>>, <<1>>},
          status \in {"NotReadyToSend", "ReadyToSend"} :
         StoreObject(t, id, [NoMeta EXCEPT !.inactive = inactive], data, status)
    \/ \E t \in Threads : StoreObjectUpsert(t)
    \/ \E t \in Threads, id \in UploadKeys : MarkObjectDeleted(t, id)
    \/ \E t \in Threads, id \in UploadKeys, status \in Statuses : UpdateObjectStatus(t, id, status)
    \/ \E t \in Threads, id \in UploadKeys : ActivateObject(t, id)
    \/ \E t \in Threads, id \in UploadKeys, data \in {<<1>>, <<1, 2>>} : StoreObjectData(t, id, data)
    \/ \E t \in Threads : StoreObjectDataStatus(t)
    \/ \E t \in Threads : StoreObjectDataCopy(t)
    \/ \E t \in Threads : StoreObjectDataSize(t)

SpecStatus == Init /\ [][NextStatus]_vars

\* The callers of the destination operations: two objects, addressed to every
\* destination or to one, and the organization's two destinations.
NextDestinations ==
    \/ \E t \in Threads, d \in Dests : StoreDestination(t, d)
    \/ \E t \in Threads, id \in Keys, d \in {[destType |-> "", destID |-> ""]} \cup Dests,
          status \in {"NotReadyToSend", "ReadyToSend"} :
         StoreObject(t, id, [NoMeta EXCEPT !.destType = d.destType, !.destID = d.destID],
                     <<>>, status)
    \/ \E t \in Threads : StoreObjectUpsert(t)
    \/ \E t \in Threads, d \in Dests : RetrieveObjects(t, d.destType, d.destID)
    \/ \E t \in Threads : RetrieveObjectsFetch(t)
    \/ \E t \in Threads : RetrieveObjectsDest(t)
    \/ \E t \in Threads : RetrieveObjectsUpdate(t)
    \/ \E t \in Threads, id \in Keys, d \in Dests,
          sm \in {<<"Consumed", "">>, <<"", "m">>, <<"", "">>} :
         UpdateObjectDeliveryStatus(t, sm[1], sm[2], id, d.destType, d.destID)
    \/ \E t \in Threads : DeliveryStatusRefetch(t)
    \/ \E t \in Threads : DeliveryStatusUpdate(t)
    \/ \E t \in Threads, id \in Keys : UpdateObjectDelivering(t, id)
    \/ \E t \in Threads : DeliveringRefetch(t)
    \/ \E t \in Threads : DeliveringUpdate(t)

SpecDestinations == Init /\ [][NextDestinations]_vars

\* The state after StoreDestination of the two destinations and a StoreObject
\* at the origin of one object addressed to every destination, with or
\* without autoDelete and an expiration: both destinations are Pending.
DestSeq ==
    <<[destType |-> "T1", destID |-> "D1"], [destType |-> "T1", destID |-> "D2"]>>

InitDelivery ==
    /\ leader = {}
    /\ clock = EpochTS
    /\ ret = NoCall
    /\ nInserted = 0
    /\ won = [v \in Versions |-> 0]
    /\ lastWinner = 0
    /\ files = [id \in Keys |-> NoFile]
    /\ openFiles = [id \in Keys |-> NoHandle]
    /\ aret = NoAppend
    /\ calls = 0
    /\ up = [id \in Keys |-> NoUpload]
    /\ destinations = DestSeq
    /\ th = [t \in Threads |-> Idle]
    /\ fs = NoFiles
    /\ notifications = NoNotifications
    /\ now = EpochTS
    /\ webhooks = NoWebhooks
    /\ messagingGroups = {}
    /\ \E autoDelete \in BOOLEAN, expiration \in {"", "t0"} :
         objects = [id \in Keys |->
                      IF id \in UploadKeys
                        THEN object([NoMeta EXCEPT !.instanceID = EpochTS,
                                                   !.autoDelete = autoDelete,
                                                   !.expiration = expiration],
                                    "ReadyToSend",
                                    [n \in 1..Len(DestSeq) |->
                                       StoreDestinationStatus(DestSeq[n], "Pending", "")])
                        ELSE NoObject]

\* The callers that report delivery to the two destinations of the object,
\* on two threads.
NextDelivery ==
    \/ \E t \in Threads, id \in UploadKeys, d \in Dests,
          sm \in {<<"Consumed", "">>, <<"Error", "m">>, <<"", "">>} :
         UpdateObjectDeliveryStatus(t, sm[1], sm[2], id, d.destType, d.destID)
    \/ \E t \in Threads : DeliveryStatusRefetch(t)
    \/ \E t \in Threads : DeliveryStatusUpdate(t)
    \/ \E t \in Threads, id \in UploadKeys : UpdateObjectDelivering(t, id)
    \/ \E t \in Threads : DeliveringRefetch(t)
    \/ \E t \in Threads : DeliveringUpdate(t)

SpecDelivery == InitDelivery /\ [][NextDelivery]_vars

\* The state after a StoreObject of one object on a receiving node, with
\* expectedConsumers up to MaxConsumers.
InitDecrement ==
    /\ leader = {}
    /\ clock = EpochTS
    /\ ret = NoCall
    /\ nInserted = 0
    /\ won = [v \in Versions |-> 0]
    /\ lastWinner = 0
    /\ files = [id \in Keys |-> NoFile]
    /\ openFiles = [id \in Keys |-> NoHandle]
    /\ aret = NoAppend
    /\ calls = 0
    /\ up = [id \in Keys |-> NoUpload]
    /\ destinations = <<>>
    /\ th = [t \in Threads |-> Idle]
    /\ fs = NoFiles
    /\ notifications = NoNotifications
    /\ now = EpochTS
    /\ webhooks = NoWebhooks
    /\ messagingGroups = {}
    /\ \E n \in 0..MaxConsumers :
         objects = [id \in Keys |->
                      IF id \in UploadKeys
                        THEN object([NoMeta EXCEPT !.expectedConsumers = n],
                                    "CompletelyReceived", <<>>)
                        ELSE NoObject]

\* Callers that only decrement the counter of the stored object.
NextDecrement ==
    \/ \E t \in Threads, id \in UploadKeys : DecrementAndReturnRemainingConsumers(t, id)
    \/ \E t \in Threads : DecrementFetch(t)

SpecDecrement == InitDecrement /\ [][NextDecrement]_vars

\* Callers that store the object, with any expectedConsumers up to
\* MaxConsumers, and decrement its counter, on two threads.
NextStoreDecrement ==
    \/ \E t \in Threads, id \in UploadKeys, n \in 0..MaxConsumers,
          status \in {"ReadyToSend", "CompletelyReceived"} :
         StoreObject(t, id, [NoMeta EXCEPT !.expectedConsumers = n], <<>>, status)
    \/ \E t \in Threads : StoreObjectUpsert(t)
    \/ \E t \in Threads, id \in UploadKeys : DecrementAndReturnRemainingConsumers(t, id)
    \/ \E t \in Threads : DecrementFetch(t)

SpecStoreDecrement == Init /\ [][NextStoreDecrement]_vars

\* One caller that stores destinations and objects (two objects, addressed
\* to every destination or to one, active or inactive) and retrieves the
\* objects of a destination.  With one caller no update of RetrieveObjects
\* meets a conflict, so no pass is started over.
NextRetrieve ==
    \/ \E d \in Dests : StoreDestination("t1", d)
    \/ \E id \in Keys, d \in {[destType |-> "", destID |-> ""]} \cup Dests,
          inactive \in BOOLEAN, status \in {"NotReadyToSend", "ReadyToSend"} :
         StoreObject("t1", id, [NoMeta EXCEPT !.destType = d.destType, !.destID = d.destID,
                                              !.inactive = inactive],
                     <<>>, status)
    \/ StoreObjectUpsert("t1")
    \/ \E d \in Dests : RetrieveObjects("t1", d.destType, d.destID)
    \/ RetrieveObjectsDest("t1")
    \/ RetrieveObjectsUpdate("t1")

SpecRetrieve == Init /\ [][NextRetrieve]_vars

\* The destinations a caller of StoreObject may have stored: those of Dests
\* and one of another type.
StoreDests == Dests \cup {[destType |-> "T2", destID |-> "D1"]}

\* The DestType and DestID an object may be addressed to: everything, a type,
\* an id, or one destination.
StoreFilters ==
    {[destType |-> "", destID |-> ""], [destType |-> "T1", destID |-> ""],
     [destType |-> "", destID |-> "D1"], [destType |-> "T1", destID |-> "D2"],
     [destType |-> "T2", destID |-> "D1"]}

\* One caller that stores destinations and then objects with any status, with
\* an instance id of its own or none, and some updates that move the time.
NextStore ==
    \/ \E d \in StoreDests : StoreDestination("t1", d)
    \/ \E id \in UploadKeys, f \in StoreFilters, instanceID \in {0, 9},
          n \in {0, MaxConsumers}, status \in Statuses \ {"ObjDeleted", "ObjReceived"} :
         StoreObject("t1", id, [NoMeta EXCEPT !.destType = f.destType, !.destID = f.destID,
                                              !.instanceID = instanceID,
                                              !.expectedConsumers = n],
                     <<>>, status)
    \/ StoreObjectUpsert("t1")
    \/ \E id \in UploadKeys : ActivateObject("t1", id)

SpecStore == Init /\ [][NextStore]_vars

\* The resend times a caller of UpdateNotificationRecord passes: none, or one
\* it read from a row.
ResendTimes == {0, 3}

\* The keys of the rows whose resending is followed: one destination in each
\* of two organizations.
ResendKeys == {k \in NotKeys : k.destID = "D1"}

\* One caller that stores, postpones, deletes and retrieves the notifications
\* to resend, MaxCalls calls in all, while the time passes.
NextNotifications ==
    \/ \E k \in ResendKeys, status \in NotificationStatuses, resendTime \in ResendTimes :
         calls < MaxCalls /\ UpdateNotificationRecord("t1", k, status, resendTime)
    \/ \E k \in ResendKeys :
         calls < MaxCalls /\ UpdateNotificationResendTime("t1", k)
    \/ \E k \in ResendKeys :
         calls < MaxCalls /\
         DeleteNotificationRecords("t1", k.org, k.objectID, k.destType, k.destID)
    \/ \E orgID \in {"O", "P"}, retrieveReceived \in BOOLEAN :
         calls < MaxCalls /\ RetrieveNotifications("t1", orgID, "", "", retrieveReceived)
    \/ Tick

SpecNotifications == Init /\ [][NextNotifications]_vars

\* One caller that stores and deletes notifications of three keys and
\* retrieves those of a destination, MaxCalls calls in all.
NextNotifyDestination ==
    \/ \E k \in NotKeys, status \in NotificationStatuses :
         calls < MaxCalls /\ UpdateNotificationRecord("t1", k, status, 0)
    \/ \E orgID \in {"O", "P"}, d \in Dests :
         calls < MaxCalls /\ DeleteNotificationRecords("t1", orgID, "", d.destType, d.destID)
    \/ \E orgID \in {"O", "P"}, d \in Dests, retrieveReceived \in BOOLEAN :
         calls < MaxCalls /\
         RetrieveNotifications("t1", orgID, d.destType, d.destID, retrieveReceived)

SpecNotifyDestination == Init /\ [][NextNotifyDestination]_vars

\* One caller that stores and deletes the payload behind a URI and the
\* payload of an object in the database.
NextDeleteData ==
    \/ \E uri \in URIs, rd \in FileData, rdErr \in BOOLEAN : \E dataLength \in {0, Len(rd)} :
         StoreData("t1", uri, rd, rdErr, dataLength)
    \/ StoreDataWrite("t1")
    \/ StoreDataRename("t1")
    \/ \E uri \in URIs : DeleteStoredData("t1", uri)
    \/ \E id \in UploadKeys, data \in {<<>>, <<1>>} :
         StoreObject("t1", id, NoMeta, data, "ReadyToSend")
    \/ StoreObjectUpsert("t1")
    \/ \E id \in UploadKeys : MongoDeleteStoredData("t1", id)

SpecDeleteData == Init /\ [][NextDeleteData]_vars

\* One caller that stores the payload behind the URI and reads chunks of it,
\* of any size up to MaxChunk at any offset up to MaxOffset.
NextChunk ==
    \/ \E rd \in FileData, rdErr \in BOOLEAN : \E dataLength \in {0, Len(rd)} :
         StoreData("t1", "file:///p", rd, rdErr, dataLength)
    \/ StoreDataWrite("t1")
    \/ StoreDataRename("t1")
    \/ \E uri \in URIs, size \in 0..MaxChunk, offset \in 0..MaxOffset :
         GetDataChunk("t1", uri, size, offset)

SpecChunk == Init /\ [][NextChunk]_vars

\* The payloads a caller stores in the database.
BlobData == {<<1>>, <<1, 2>>, <<2, 1, 2>>}

\* One caller that stores objects with a payload and reads chunks of it, of
\* any size up to MaxChunk + 1 at any offset up to MaxOffset + 1.
NextReadData ==
    \/ \E id \in UploadKeys, data \in BlobData :
         StoreObject("t1", id, NoMeta, data, "ReadyToSend")
    \/ StoreObjectUpsert("t1")
    \/ \E id \in UploadKeys, size \in 0..(MaxChunk + 1), offset \in 0..(MaxOffset + 1) :
         ReadObjectData("t1", id, size, offset)

SpecReadData == Init /\ [][NextReadData]_vars

\* Concurrent callers of AddWebhook and DeleteWebhook for one object type.
NextWebhooks ==
    \/ \E t \in Threads, url \in HookURLs : AddWebhook(t, url)
    \/ \E t \in Threads : AddWebhookRefetch(t)
    \/ \E t \in Threads : AddWebhookInsert(t)
    \/ \E t \in Threads : AddWebhookUpdate(t)
    \/ \E t \in Threads, url \in HookURLs : DeleteWebhook(t, url)
    \/ \E t \in Threads : DeleteWebhookRefetch(t)
    \/ \E t \in Threads : DeleteWebhookUpdate(t)

SpecWebhooks == Init /\ [][NextWebhooks]_vars

\* One object with an entry for each destination, and the webhooks of one
\* object type, as earlier calls left them.  Timestamps are only compared for
\* equality: the clock and the count of calls start maxUpdateTries + 1 below
\* MaxClock and MaxOps, so that one call and the writes of maxUpdateTries
\* other calls fit under the bounds.
InitRetry ==
    /\ leader = {}
    /\ clock = MaxClock - (maxUpdateTries + 1)
    /\ ret = NoCall
    /\ nInserted = 0
    /\ won = [v \in Versions |-> 0]
    /\ lastWinner = 0
    /\ files = [id \in Keys |-> NoFile]
    /\ openFiles = [id \in Keys |-> NoHandle]
    /\ aret = NoAppend
    /\ calls = MaxOps - (maxUpdateTries + 1)
    /\ up = [id \in Keys |-> NoUpload]
    /\ destinations = DestSeq
    /\ th = [t \in Threads |-> Idle]
    /\ fs = NoFiles
    /\ notifications = NoNotifications
    /\ now = EpochTS
    /\ webhooks = [exists |-> TRUE, hooks |-> <<"http://a">>,
                   lastUpdate |-> MaxClock - (maxUpdateTries + 1)]
    /\ messagingGroups = {}
    /\ objects = [id \in Keys |->
                    IF id \in UploadKeys
                      THEN [object([NoMeta EXCEPT !.instanceID = EpochTS], "ReadyToSend",
                                   [n \in 1..Len(DestSeq) |->
                                      StoreDestinationStatus(DestSeq[n], "Pending", "")])
                              EXCEPT !.lastUpdate = MaxClock - (maxUpdateTries + 1)]
                      ELSE NoObject]

\* Thread t1 makes one call of a handler that updates under the guard of
\* last-update; thread t2 writes the same documents in between.
NextRetry ==
    \/ /\ th["t1"].op = "none"
       /\ \E id \in UploadKeys, d \in Dests :
            UpdateObjectDeliveryStatus("t1", "Consumed", "", id, d.destType, d.destID)
    \/ DeliveryStatusRefetch("t1")
    \/ DeliveryStatusUpdate("t1")
    \/ /\ th["t1"].op = "none"
       /\ \E id \in UploadKeys : UpdateObjectDelivering("t1", id)
    \/ DeliveringRefetch("t1")
    \/ DeliveringUpdate("t1")
    \/ /\ th["t1"].op = "none"
       /\ \E d \in Dests : RetrieveObjects("t1", d.destType, d.destID)
    \/ RetrieveObjectsFetch("t1")
    \/ RetrieveObjectsDest("t1")
    \/ RetrieveObjectsUpdate("t1")
    \/ \E id \in UploadKeys : ActivateObject("t2", id)
    \/ /\ th["t1"].op = "none"
       /\ AddWebhook("t1", "http://A")
    \/ AddWebhook("t2", "http://b")
    \/ \E t \in Threads : AddWebhookRefetch(t)
    \/ \E t \in Threads : AddWebhookUpdate(t)
    \/ /\ th["t1"].op = "none"
       /\ DeleteWebhook("t1", "http://a")
    \/ DeleteWebhook("t2", "http://b")
    \/ \E t \in Threads : DeleteWebhookRefetch(t)
    \/ \E t \in Threads : DeleteWebhookUpdate(t)

SpecRetry == InitRetry /\ [][NextRetry]_vars

\* The callers of UpdateObjectDeliveryStatus on an object that has an entry
\* for each destination of Dests: the reports name these destinations or one
\* the object has no entry for.
NextDeliveryAny ==
    \/ \E t \in Threads, id \in UploadKeys, d \in StoreDests,
          sm \in {<<"Consumed", "">>, <<"Error", "m">>, <<"", "">>} :
         UpdateObjectDeliveryStatus(t, sm[1], sm[2], id, d.destType, d.destID)
    \/ \E t \in Threads : DeliveryStatusRefetch(t)
    \/ \E t \in Threads : DeliveryStatusUpdate(t)

SpecDeliveryAny == InitDelivery /\ [][NextDeliveryAny]_vars

\* One caller that stores objects, with a payload or without, at the origin
\* or as a receiver, and stores payloads for the keys, stored or not.
NextStoreData ==
    \/ \E id \in Keys, data \in {<<>>, <<2>>},
          status \in {"NotReadyToSend", "ReadyToSend", "CompletelyReceived"} :
         StoreObject("t1", id, NoMeta, data, status)
    \/ StoreObjectUpsert("t1")
    \/ \E id \in Keys, data \in {<<>>, <<1>>, <<1, 2>>} : StoreObjectData("t1", id, data)
    \/ StoreObjectDataStatus("t1")
    \/ StoreObjectDataCopy("t1")
    \/ StoreObjectDataSize("t1")

SpecStoreData == Init /\ [][NextStoreData]_vars

\* An uploader on thread t2 and a reader on thread t1 of the same key: the
\* uploader starts uploads with a first chunk and sends further chunks (in
\* order or not, last or not) while its upload is in progress; the reader
\* opens the published payload and closes the reader it got.
NextReaders ==
    \/ \E id \in UploadKeys, rd \in {<<1>>, <<1, 2>>}, isLastChunk \in BOOLEAN :
         UploadChunk("t2", id, rd, 0, TRUE, isLastChunk)
    \/ \E id \in UploadKeys, rd \in {<<1>>, <<1, 2>>}, offset \in 1..MaxOffset,
          isLastChunk \in BOOLEAN :
         /\ UploadInProgress("t2", id)
         /\ UploadChunk("t2", id, rd, offset, FALSE, isLastChunk)
    \/ \E id \in UploadKeys : RetrieveObjectData("t1", id)
    \/ CloseDataReader("t1")

SpecReaders == Init /\ [][NextReaders]_vars

\* One upload for each key of a payload of up to MaxTotal bytes, cut into
\* chunks anywhere and delivered in any order, each chunk once it was accepted.
NextPublish ==
    \/ \E id \in Keys, total \in 1..MaxTotal :
         \E cuts \in SUBSET (1..(total - 1)) :
            /\ up[id] = NoUpload
            /\ StartUpload(id, total, cuts)
    \/ \E id \in Keys : \E c \in up[id].todo : DeliverChunkByPlace(id, c)

SpecPublish == Init /\ [][NextPublish]_vars

\* One caller that stores objects with and without a payload, destinations,
\* notifications and messaging groups of two organizations, and deletes an
\* organization.
NextOrganization ==
    \/ \E id \in Keys, data \in {<<>>, <<1>>} :
         StoreObject("t1", id, NoMeta, data, "ReadyToSend")
    \/ StoreObjectUpsert("t1")
    \/ \E d \in Dests : StoreDestination("t1", d)
    \/ \E k \in NotKeys : UpdateNotificationRecord("t1", k, "Update", 0)
    \/ \E orgID \in Orgs : StoreOrgToMessagingGroup("t1", orgID, "G")
    \/ \E orgID \in Orgs : DeleteOrganization("t1", orgID)
    \/ DeleteOrganizationDestinations("t1")
    \/ DeleteOrganizationNotifications("t1")
    \/ DeleteOrganizationObjects("t1")

SpecOrganization == Init /\ [][NextOrganization]_vars

\* One caller that stores objects, at the origin or as a receiver, with any
\* instance id and expectedConsumers in the metadata, reads them back, and
\* changes their status in between (which moves the time on).
NextStoreRetrieve ==
    \/ \E id \in Keys, instanceID \in {0, 9}, n \in {0, 1},
          status \in {"NotReadyToSend", "ReadyToSend", "PartiallyReceived", "CompletelyReceived"} :
         StoreObject("t1", id, [NoMeta EXCEPT !.instanceID = instanceID,
                                              !.expectedConsumers = n], <<>>, status)
    \/ StoreObjectUpsert("t1")
    \/ \E id \in Keys : RetrieveObject("t1", id)
    \/ \E id \in Keys : ActivateObject("t1", id)

SpecStoreRetrieve == Init /\ [][NextStoreRetrieve]_vars

\* An upload is opened by a first chunk of one byte, and two threads append
\* chunks of one or two bytes at offsets up to MaxOffset to it.
NextAppendConc ==
    \/ \E id \in UploadKeys : OverflowOpen(id)
    \/ \E t \in Threads, id \in UploadKeys, rd \in {<<2>>, <<3, 3>>}, offset \in 0..MaxOffset :
         AppendObjectDataStart(t, id, rd, offset)
    \/ \E t \in Threads : AppendObjectDataWrite(t)
    \/ \E t \in Threads : AppendObjectDataBuffer(t)

SpecAppendConc == Init /\ [][NextAppendConc]_vars

\* One caller of the file backend at a time: every call runs to its return
\* before the next starts.
NextFileSeq ==
    \/ \E uri \in URIs, rd \in FileData, rdErr \in BOOLEAN, dataLength \in 0..MaxChunk,
          offset \in 0..MaxOffset, isLastChunk \in BOOLEAN :
         AppendData("t1", uri, rd, rdErr, dataLength, offset, isLastChunk)
    \/ AppendDataWrite("t1")
    \/ AppendDataRename("t1")
    \/ \E uri \in URIs, rd \in FileData, rdErr \in BOOLEAN, dataLength \in 0..MaxChunk :
         StoreData("t1", uri, rd, rdErr, dataLength)
    \/ StoreDataWrite("t1")
    \/ StoreDataRename("t1")
    \/ \E uri \in URIs : GetData("t1", uri)
    \/ \E uri \in URIs : DeleteStoredData("t1", uri)

SpecFileSeq == Init /\ [][NextFileSeq]_vars

\* Concurrent callers of AppendData, StoreData and GetData on the URI, MaxCalls
\* calls in all: chunks at offset 0 or MaxOffset, with the declared length of
\* the content or 0.
NextFileConc ==
    \/ \E t \in Threads, rd \in FileData, rdErr \in BOOLEAN,
          offset \in {0, MaxOffset}, isLastChunk \in BOOLEAN : \E dataLength \in {0, Len(rd)} :
         calls < MaxCalls /\ AppendData(t, "file:///p", rd, rdErr, dataLength, offset, isLastChunk)
    \/ \E t \in Threads : AppendDataWrite(t)
    \/ \E t \in Threads : AppendDataRename(t)
    \/ \E t \in Threads, rd \in FileData, rdErr \in BOOLEAN : \E dataLength \in {0, Len(rd)} :
         calls < MaxCalls /\ StoreData(t, "file:///p", rd, rdErr, dataLength)
    \/ \E t \in Threads : StoreDataWrite(t)
    \/ \E t \in Threads : StoreDataRename(t)
    \/ \E t \in Threads : calls < MaxCalls /\ GetData(t, "file:///p")

SpecFileConc == Init /\ [][NextFileConc]_vars

(***************************************************************************)
(* Leader election: properties                                             *)
(***************************************************************************)

\* C7: UpdateLeader(uuid, v) is a compare-and-swap on version. It returns
\* success, without error, exactly when the stored document's version is v
\* when the update runs; a success stores uuid and version v + 1, a failure
\* leaves the collection as it was; and of all the calls that pass the same
\* v at most one returns success.
C7_UpdateLeaderIsCAS ==
    /\ [](\A v \in Versions : won[v] <= 1)
    /\ [][ret'.op = "UpdateLeader" =>
            /\ ret'.success <=> (\E d \in leader : d.id = 1 /\ d.version = ret'.version)
            /\ ~ret'.err
            /\ ~ret'.success => leader' = leader
            /\ ret'.success =>
                  \A d \in leader' : d.uuid = ret'.node /\ d.version = ret'.version + 1
       ]_vars

\* A call that lost: it passed the version another call had already won with.
C7_Witness ==
    /\ ret.op = "UpdateLeader"
    /\ ~ret.success
    /\ won[ret.version] = 1
    /\ lastWinner # ret.node

\* C8: LeaderPeriodicUpdate(uuid) returns success, without error, exactly when
\* the leader document's uuid is the caller's; a failed call changes nothing
\* (lastHeartbeatTS included); and while the last successful UpdateLeader is
\* another node's, the call fails.
C8_PeriodicUpdateOnlyByLeader ==
    /\ [](ret.op = "LeaderPeriodicUpdate" /\ lastWinner \notin {0, ret.node}
            => ~ret.success /\ ~ret.err)
    /\ [][ret'.op = "LeaderPeriodicUpdate" =>
            /\ ret'.success <=> (\E d \in leader : d.id = 1 /\ d.uuid = ret'.node)
            /\ ~ret'.err
            /\ ~ret'.success => leader' = leader
            /\ ret'.success =>
                  \E d \in leader : leader' = {[d EXCEPT !.ts = clock']} /\ clock' > d.ts
       ]_vars

\* The node that inserted the document, displaced by a takeover, fails its heartbeat.
C8_Witness ==
    /\ ret.op = "LeaderPeriodicUpdate"
    /\ ~ret.success
    /\ lastWinner \notin {0, ret.node}
    /\ \E d \in leader : d.version >= 2 /\ d.uuid = lastWinner

\* C9: the leader document's version never decreases: a successful UpdateLeader
\* increases it by exactly 1 and every other call (and a failed UpdateLeader)
\* leaves it unchanged.
C9_VersionMonotonic ==
    [][\A d \in leader : \E e \in leader' :
            /\ e.id = d.id
            /\ e.version >= d.version
            /\ e.version = IF ret'.op = "UpdateLeader" /\ ret'.success
                             THEN d.version + 1 ELSE d.version
      ]_vars

\* The version has grown twice and a resignation has left it alone.
C9_Witness ==
    /\ ret.op = "ResignLeadership"
    /\ ret.success
    /\ \E d \in leader : d.version = 3 /\ d.ts = EpochTS

\* C10: at most one InsertInitialLeader call returns inserted=true, exactly one
\* once the document exists, and the collection then holds exactly one document;
\* a call returns inserted=true exactly when the collection holds no document
\* with id 1, and a call that returns inserted=false returns no error and
\* leaves the document unchanged.
C10_SingleInitialLeader ==
    /\ [](/\ nInserted <= 1
          /\ leader # {} => Cardinality(leader) = 1 /\ nInserted = 1
          /\ nInserted = 1 => leader # {})
    /\ [][ret'.op = "InsertInitialLeader" =>
            /\ ret'.success <=> ~(\E d \in leader : d.id = 1)
            /\ ~ret'.err
            /\ ~ret'.success => leader' = leader
            /\ ret'.success =>
                  leader' = {leaderDocument(ret'.node, 0, LeadershipTimeout(ret'.node), 1)}
       ]_vars

\* A second node's insert was refused and the first node's document stands.
C10_Witness ==
    /\ ret.op = "InsertInitialLeader"
    /\ ~ret.success
    /\ nInserted = 1
    /\ \E d \in leader : d.uuid # ret.node /\ d.version = 1

(***************************************************************************)
(* Chunked upload: properties                                              *)
(***************************************************************************)

\* C4: when the chunks of a payload have all been delivered, in whatever order,
\* the first delivery flagged isFirstChunk and the last isLastChunk, the
\* published blob is the one that delivering them in ascending offset order
\* publishes, which is the payload.
C4_AnyOrderSameBlob ==
    \A id \in Keys :
        up[id].all # {} /\ up[id].todo = {} =>
            /\ files[id] = SequentialAppend(NoHandle, NoFile, up[id].all, up[id].all)
            /\ files[id] = File(Payload(up[id].total))

\* An upload of three or more chunks that ended with the chunk at offset 0:
\* every other chunk was buffered and then drained.
C4_Witness ==
    \E id \in Keys :
        /\ Cardinality(up[id].all) >= 3
        /\ up[id].todo = {}
        /\ aret.op = "AppendObjectData" /\ aret.id = id
        /\ aret.last /\ aret.err = ""
        /\ up[id].sent[Len(up[id].sent)] = 0

\* C5: when an AppendObjectData call with isLastChunk returns success,
\* openFiles holds no handle for its id.
C5_LastChunkEvictsHandle ==
    aret.op = "AppendObjectData" /\ aret.last /\ aret.err = ""
        => ~openFiles[aret.id].open

\* A last chunk that was not the first: the handle was registered before the call.
C5_Witness ==
    /\ aret.op = "AppendObjectData"
    /\ aret.last /\ ~aret.first /\ aret.err = ""
    /\ files[aret.id].exists /\ Len(files[aret.id].data) >= 2
    /\ ~openFiles[aret.id].open

\* C6: the out-of-order buffer of a handle never holds more than 100 chunks,
\* and the 101st out-of-order chunk of an upload is refused with Discarded.
C6_WindowOf100 ==
    \A id \in Keys :
        /\ Cardinality(openFiles[id].chunks) <= MaxOutOfOrder
        /\ aret.op = "AppendObjectData" /\ openFiles[id].open /\ calls = MaxOutOfOrder + 1
              => aret.err = "discarded"

(***************************************************************************)
(* Objects: properties                                                     *)
(***************************************************************************)

\* C1: whatever StoreObject, DecrementAndReturnRemainingConsumers and
\* ResetObjectRemainingConsumers calls were made, in any interleaving, every
\* stored object has 0 <= remainingConsumers <= metadata.expectedConsumers.
C1_RemainingConsumersInRange ==
    \A id \in Keys :
        objects[id].exists =>
            /\ 0 <= objects[id].remainingConsumers
            /\ objects[id].remainingConsumers <= objects[id].md.expectedConsumers

\* C2: whatever StoreDestination, StoreObject, RetrieveObjects,
\* UpdateObjectDeliveryStatus and UpdateObjectDelivering calls were made, no
\* object's destinations list holds two entries with the same
\* (destType, destID).
C2_NoDuplicateDestinations ==
    \A id \in Keys :
        \A m, n \in 1..Len(objects[id].destinations) :
            objects[id].destinations[m].destination = objects[id].destinations[n].destination
                => m = n

\* C3: in every reachable state an object whose metadata.deleted is true has
\* status ObjDeleted, whatever the interleaving of MarkObjectDeleted with
\* UpdateObjectStatus, ActivateObject, StoreObjectData and StoreObject.
C3_DeletedImpliesObjDeleted ==
    \A id \in Keys :
        (objects[id].exists /\ objects[id].md.deleted) => objects[id].status = "ObjDeleted"

\* The entry of the destination in the stored list of the object has the status.
HasStatus(id, destType, destID, status) ==
    \E n \in 1..Len(objects[id].destinations) :
        /\ objects[id].destinations[n].destination = [destType |-> destType, destID |-> destID]
        /\ objects[id].destinations[n].status = status

\* C11: updates of one object's destinations are linearizable: every
\* UpdateObjectDeliveryStatus that returns success has written the list that
\* was stored at the moment of its write with its own entry changed and every
\* other entry as it was, so of two concurrent calls for different
\* destinations neither overwrites the other with a stale list.
C11_DeliveryStatusLinearizable ==
    [][\A t \in Threads :
         (th[t].pc = "DeliveryStatus_update" /\ th'[t].pc = "idle" /\ th'[t].err = "")
           => objects'[th[t].id].destinations =
                DeliveryStatusOf(objects[th[t].id].destinations, th[t].status, th[t].message,
                                 th[t].destType, th[t].destID).dests]_vars

\* Two calls for different destinations of one object ran concurrently, one
\* of them retried after the other's write, both returned success and the
\* stored list shows both statuses.
C11_Witness ==
    \E t, u \in Threads :
        /\ t # u
        /\ th[t].pc = "idle" /\ th[t].op = "UpdateObjectDeliveryStatus" /\ th[t].err = ""
        /\ th[u].pc = "idle" /\ th[u].op = "UpdateObjectDeliveryStatus" /\ th[u].err = ""
        /\ th[t].id = th[u].id /\ th[t].id # ""
        /\ th[t].destID # th[u].destID
        /\ th[t].i = 0 /\ th[u].i = 1
        /\ th[t].status = "Consumed" /\ th[u].status = "Error"
        /\ HasStatus(th[t].id, th[t].destType, th[t].destID, "Consumed")
        /\ HasStatus(th[u].id, th[u].destType, th[u].destID, "Error")

\* Every entry of the list is Consumed.
AllConsumed(dests) == \A n \in 1..Len(dests) : dests[n].status = "Consumed"

\* C12: for an autoDelete object whose destinations are reported Consumed one
\* at a time, in any order and concurrently, metadata.expiration is set (to
\* one hour from now) by the UpdateObjectDeliveryStatus write that leaves
\* every destination Consumed and by no earlier one, and a non-empty
\* expiration is never overwritten.
C12_ExpirationOnLastConsumed ==
    [][\A id \in Keys :
         LET o == objects[id]
             p == objects'[id]
         IN  (o.exists /\ p.exists) =>
               /\ o.md.expiration # "" => p.md.expiration = o.md.expiration
               /\ p.md.expiration # o.md.expiration =>
                    /\ o.md.autoDelete
                    /\ AllConsumed(p.destinations)
                    /\ p.md.expiration = "now+1h"
                    /\ \E t \in Threads : /\ th[t].pc = "DeliveryStatus_update"
                                          /\ th[t].status = "Consumed"
                                          /\ th'[t].pc = "idle"
               /\ \A t \in Threads :
                    ( /\ th[t].pc = "DeliveryStatus_update" /\ th[t].id = id
                      /\ th[t].status = "Consumed"
                      /\ th'[t].pc = "idle" /\ th'[t].err = ""
                      /\ o.md.autoDelete /\ o.md.expiration = ""
                      /\ AllConsumed(p.destinations) )
                    => p.md.expiration = "now+1h"]_vars

\* Two concurrent calls reported the two destinations Consumed, the second
\* write came after a retry, and the object has its expiration.
C12_Witness ==
    \E t, u \in Threads :
        /\ t # u
        /\ th[t].pc = "idle" /\ th[t].op = "UpdateObjectDeliveryStatus" /\ th[t].err = ""
        /\ th[u].pc = "idle" /\ th[u].op = "UpdateObjectDeliveryStatus" /\ th[u].err = ""
        /\ th[t].id = th[u].id /\ th[t].id # ""
        /\ th[t].destID # th[u].destID
        /\ th[t].status = "Consumed" /\ th[u].status = "Consumed"
        /\ th[u].i = 1
        /\ objects[th[t].id].md.autoDelete
        /\ AllConsumed(objects[th[t].id].destinations)
        /\ objects[th[t].id].md.expiration = "now+1h"

\* C15: two AppendObjectData calls for one key that run concurrently leave
\* the handle (offset, buffered chunks, staging blob) as some serial
\* execution of the two calls leaves it.  Two calls that found the same
\* handle and both returned success ran concurrently: a successful call
\* changes the handle.
C15_ConcurrentAppendersSerialize ==
    \A t, u \in Threads :
        ( /\ t # u
          /\ th[t].pc = "idle" /\ th[t].op = "AppendObjectData" /\ th[t].err = ""
          /\ th[u].pc = "idle" /\ th[u].op = "AppendObjectData" /\ th[u].err = ""
          /\ th[t].id = th[u].id
          /\ th[t].h0.open /\ th[t].h0 = th[u].h0 )
        => \/ openFiles[th[t].id] = SerialAppend(th[t].h0, th[t], th[u])
           \/ openFiles[th[t].id] = SerialAppend(th[t].h0, th[u], th[t])

\* Thread t returned from a successful StoreObject and its next call, a
\* RetrieveObject of the same key, returns in this step.
StoreThenRetrieve(t) ==
    /\ th[t].pc = "idle" /\ th[t].op = "StoreObject" /\ th[t].err = ""
    /\ th'[t].pc = "idle" /\ th'[t].op = "RetrieveObject"
    /\ th'[t].id = th[t].id

\* C16, as the code has it: StoreObject(metadata, data, status) followed by
\* RetrieveObject of the same key returns the metadata passed in with, at the
\* origin (status NotReadyToSend or ReadyToSend), instanceID replaced by the
\* time of the StoreObject call; on a node that is not the origin the
\* metadata comes back identical, instanceID included.
C16_StoreThenRetrieve ==
    [][StoreThenRetrieve("t1") =>
         /\ th'["t1"].val = 1 /\ th'["t1"].err = ""
         /\ th'["t1"].md =
              IF th["t1"].status \in {"NotReadyToSend", "ReadyToSend"}
                THEN [th["t1"].mdIn EXCEPT !.instanceID = clock]
                ELSE th["t1"].mdIn]_vars

\* An object stored at the origin after the time moved on was read back,
\* with the instance id of the time of the store and not the one passed in.
C16_Witness ==
    /\ th["t1"].pc = "idle" /\ th["t1"].op = "RetrieveObject" /\ th["t1"].val = 1
    /\ objects[th["t1"].id].status = "ReadyToSend"
    /\ objects[th["t1"].id].lastUpdate = 0
    /\ clock > EpochTS
    /\ th["t1"].md.instanceID = clock
    /\ th["t1"].md.expectedConsumers = 1

\* C16 as stated: StoreObject followed by RetrieveObject of the same key
\* returns metadata identical to the metadata passed in, instanceID
\* included, if and only if the node was the origin.
C16_IdenticalIffOrigin ==
    [][StoreThenRetrieve("t1") =>
         ((th'["t1"].val = 1 /\ th'["t1"].md = th["t1"].mdIn)
            <=> th["t1"].status \in {"NotReadyToSend", "ReadyToSend"})]_vars

\* C17: whenever the status of an object changes from NotReadyToSend to
\* ReadyToSend, in particular through StoreObjectData on an existing
\* NotReadyToSend object, the same operation assigns a new
\* metadata.instanceID and recomputes the destinations from the current
\* destinations directory.  (A StoreObject that replaces the document writes
\* the instance id and the list its call computed.)
C17_ReadyToSendBumpsInstance ==
    [][\A id \in Keys :
         ( /\ objects[id].exists /\ objects[id].status = "NotReadyToSend"
           /\ objects'[id].exists /\ objects'[id].status = "ReadyToSend" )
         => \/ \E t \in Threads : /\ th[t].pc = "StoreObject_upsert" /\ th[t].id = id
                                  /\ th'[t].pc = "idle"
            \/ /\ objects'[id].md.instanceID # objects[id].md.instanceID
               /\ objects'[id].destinations = createDestinations(objects'[id].md)]_vars

\* C18: DecrementAndReturnRemainingConsumers never loses a decrement: after
\* k calls on an object stored with remainingConsumers = c, sequential or
\* concurrent, the stored remainingConsumers is c - k (calls counts the
\* calls, each of which has made its update); and when the calls are
\* sequential (here: all made by one thread), the i-th call returns c - i.
C18_NoLostDecrement ==
    [][\A id \in UploadKeys :
         /\ objects'[id].remainingConsumers = objects'[id].md.expectedConsumers - calls'
         /\ ( /\ th["t1"].pc = "Decrement_fetch" /\ th'["t1"].pc = "idle"
              /\ th["t1"].id = id /\ th["t2"].op = "none" )
            => (th'["t1"].err = "" /\
                th'["t1"].val = objects[id].md.expectedConsumers - calls)]_vars

\* Two concurrent calls on an object with remainingConsumers = 2 both
\* returned 0 and the stored counter is 0.
C18_Witness ==
    /\ calls = 2
    /\ \A t \in Threads :
         /\ th[t].pc = "idle" /\ th[t].op = "DecrementAndReturnRemainingConsumers"
         /\ th[t].err = "" /\ th[t].val = 0
    /\ \E id \in UploadKeys : /\ objects[id].md.expectedConsumers = 2
                              /\ objects[id].remainingConsumers = 0

\* C19: when, after StoreObject, only DecrementAndReturnRemainingConsumers
\* calls are applied to the counter of an object, in any number and
\* interleaving, remainingConsumers never exceeds metadata.expectedConsumers.
C19_DecrementOnlyNeverExceeds ==
    \A id \in Keys :
        objects[id].exists =>
            objects[id].remainingConsumers <= objects[id].md.expectedConsumers

\* A decrement ran between the two requests of a StoreObject that then
\* replaced the document, and one more decrement followed.
C19_Witness ==
    \E id \in UploadKeys :
        /\ objects[id].exists
        /\ objects[id].md.expectedConsumers = 2
        /\ objects[id].remainingConsumers = 1
        /\ calls = 4
        /\ \A t \in Threads : th[t].pc = "idle"
        /\ \E t \in Threads : th[t].op = "StoreObject"

\* The step in which RetrieveObjects returns on t1 without an error.
RetrieveObjectsReturns ==
    /\ th'["t1"].pc = "idle" /\ th'["t1"].op = "RetrieveObjects" /\ th'["t1"].err = ""
    /\ \/ th["t1"].pc \in {"RetrieveObjects_dest", "RetrieveObjects_update"}
       \/ th["t1"].pc = "idle" /\ calls' = calls + 1

\* The objects' destinations lists as they were when the call started: with
\* one caller, those of the call's only fetch.
ListBefore(id) ==
    IF th["t1"].pc = "idle" THEN objects[id].destinations
    ELSE LET hit == {n \in 1..Len(th["t1"].list) : th["t1"].list[n].id = id}
         IN  IF hit = {} THEN objects[id].destinations
             ELSE th["t1"].list[CHOOSE n \in hit : TRUE].obj.destinations

\* The object matches the destination of the call.
Matches(o, destType, destID) ==
    /\ o.exists
    /\ o.md.destType \in {"", destType}
    /\ o.md.destID \in {"", destID}

\* RetrieveObjects returns exactly the metadata of the ReadyToSend, active
\* objects that match the destination.
ReturnsExactlyReady(destType, destID) ==
    /\ \A n \in 1..Len(th'["t1"].metas) :
         LET m == th'["t1"].metas[n]
         IN  /\ Matches(objects'[m.id], destType, destID)
             /\ objects'[m.id].status = "ReadyToSend" /\ ~objects'[m.id].md.inactive
             /\ m.md = objects'[m.id].md
    /\ \A id \in Keys :
         ( /\ Matches(objects'[id], destType, destID)
           /\ objects'[id].status = "ReadyToSend" /\ ~objects'[id].md.inactive )
         => Cardinality({n \in 1..Len(th'["t1"].metas) : th'["t1"].metas[n].id = id}) = 1

\* The destination was appended to the list of the object with the status.
Appended(id, destType, destID, status) ==
    objects'[id].destinations =
        Append(ListBefore(id),
               StoreDestinationStatus([destType |-> destType, destID |-> destID], status, ""))

\* The lists of the returned objects got the destination as Delivering and
\* those of the matching NotReadyToSend objects got it as Pending.
AppendsDestination(destType, destID) ==
    \A id \in Keys :
        Matches(objects'[id], destType, destID) =>
            /\ (objects'[id].status = "ReadyToSend" /\ ~objects'[id].md.inactive)
                 => Appended(id, destType, destID, "Delivering")
            /\ objects'[id].status = "NotReadyToSend"
                 => /\ Appended(id, destType, destID, "Pending")
                    /\ \A n \in 1..Len(th'["t1"].metas) : th'["t1"].metas[n].id # id

\* C20: RetrieveObjects(orgID, destType, destID) returns exactly the metadata
\* of the objects with status ReadyToSend and inactive = false whose DestType
\* and DestID each are empty or equal to the given destination, and appends
\* that destination to each returned object's destinations with status
\* Delivering; a matching NotReadyToSend object is not returned and gets the
\* destination appended with status Pending.
C20_RetrieveObjectsAppends ==
    [][RetrieveObjectsReturns =>
         \A d \in Dests :
            (th'["t1"].destType = d.destType /\ th'["t1"].destID = d.destID)
            => /\ ReturnsExactlyReady(d.destType, d.destID)
               /\ AppendsDestination(d.destType, d.destID)]_vars

\* The stored destinations that pass the DestType and DestID filters of the
\* metadata, each filter applied only when it is not empty.
PassingDestinations(metaData) ==
    {destinations[n] : n \in {k \in 1..Len(destinations) :
        /\ (metaData.destType = "" \/ destinations[k].destType = metaData.destType)
        /\ (metaData.destID = "" \/ destinations[k].destID = metaData.destID)}}

\* C21: StoreObject with status NotReadyToSend or ReadyToSend stores the
\* object with an instance id taken from the time of the call, both counters
\* at metadata.expectedConsumers and a destinations list that holds exactly
\* the stored destinations passing the DestType and DestID filters, each
\* once and Pending; with any other status the instance id of the passed
\* metadata is stored unchanged and the destinations list is empty.  In both
\* cases the other metadata fields are stored as passed.
C21_StoreObjectOrigin ==
    [][\A id \in Keys :
         ( /\ th["t1"].pc = "StoreObject_upsert" /\ th["t1"].id = id
           /\ th'["t1"].pc = "idle" )
         => LET o == objects'[id]
                mdIn == th["t1"].mdIn
            IN  /\ o.exists
                /\ o.status = th["t1"].status
                /\ o.remainingConsumers = mdIn.expectedConsumers
                /\ o.remainingReceivers = mdIn.expectedConsumers
                /\ IF o.status \in {"NotReadyToSend", "ReadyToSend"}
                     THEN /\ o.md = [mdIn EXCEPT !.instanceID = clock]
                          /\ o.md.instanceID >= EpochTS
                          /\ {o.destinations[n] : n \in 1..Len(o.destinations)} =
                               {StoreDestinationStatus(d, "Pending", "") :
                                  d \in PassingDestinations(mdIn)}
                          /\ Len(o.destinations) = Cardinality(PassingDestinations(mdIn))
                     ELSE /\ o.md = mdIn
                          /\ o.destinations = <<>>]_vars

\* An object addressed to destination type T1 was stored at the origin after
\* three destinations, one of them of type T2: its list holds the two T1
\* destinations and its instance id is not the one passed.
C21_Witness ==
    /\ th["t1"].pc = "idle" /\ th["t1"].op = "StoreObject"
    /\ Len(destinations) = 3
    /\ \E id \in UploadKeys :
         /\ objects[id].exists
         /\ objects[id].status = "ReadyToSend"
         /\ objects[id].md.destType = "T1"
         /\ Len(objects[id].destinations) = 2
         /\ th["t1"].mdIn.instanceID = 9
         /\ objects[id].md.instanceID # 9

\* C22: a notification stored by UpdateNotificationRecord with resendTime = 0
\* is stored with resendTime = now + 6 * ResendInterval and one stored with
\* another resendTime keeps it; every stored notification has
\* resendTime > 0; and the collection holds at most one row for a key
\* whatever calls were made for it.
C22_ResendTimeScheduled ==
    [][/\ (th'["t1"].op = "UpdateNotificationRecord" /\ calls' = calls + 1) =>
          LET n == th'["t1"].notification
          IN  \E r \in notifications' :
                 /\ r.key = n.key /\ r.status = n.status
                 /\ r.resendTime = IF n.resendTime = 0 THEN now + 6 * ResendInterval
                                                       ELSE n.resendTime
       /\ \A r \in notifications' : r.resendTime > 0
       /\ \A r1, r2 \in notifications' : r1.key = r2.key => r1 = r2]_vars

\* Three calls for two keys left two rows: one stored with resendTime = 0 at
\* second 4, the other with the resend time 3 that was passed.
C22_Witness ==
    /\ th["t1"].op = "UpdateNotificationRecord"
    /\ calls = 3
    /\ Cardinality(notifications) = 2
    /\ \E r1, r2 \in notifications :
         /\ r1.key # r2.key
         /\ r1.resendTime = 4 + 6 * ResendInterval
         /\ r2.resendTime = 3

\* The rows a call of RetrieveNotifications returned.
ReturnedRows == {th'["t1"].metas[n] : n \in 1..Len(th'["t1"].metas)}

\* RetrieveNotifications returns on t1 from a call with no destination given.
RetrieveNotificationsReturns ==
    /\ th'["t1"].op = "RetrieveNotifications" /\ calls' = calls + 1
    /\ th'["t1"].err = ""

\* C23: RetrieveNotifications with no destination given returns a row (of
\* any organization) if and only if its status is Getdata, or its resend
\* time is at most now and its status is Update, Received, Consumed, Data,
\* Delete or Deleted, each row once; so a row with such a status is not
\* returned while now is before its resend time and is returned by every
\* call from then on; and UpdateNotificationResendTime moves the resend time
\* of the row to now + 6 * ResendInterval and changes nothing else.
C23_ResendWhenDue ==
    [][/\ ( /\ RetrieveNotificationsReturns
            /\ th'["t1"].destType = "" /\ th'["t1"].destID = "" )
          => /\ ReturnedRows =
                  {r \in notifications :
                     \/ r.status = "Getdata"
                     \/ /\ r.resendTime <= now
                        /\ r.status \in {"Update", "Received", "Consumed", "Data",
                                         "Delete", "Deleted"}}
             /\ Len(th'["t1"].metas) = Cardinality(ReturnedRows)
       /\ ( /\ th'["t1"].op = "UpdateNotificationResendTime" /\ calls' = calls + 1
            /\ th'["t1"].err = "" )
          => \E r \in notifications :
               /\ notifications' =
                    (notifications \ {r}) \cup
                       {[r EXCEPT !.resendTime = now + 6 * ResendInterval]}
               /\ \A q \in notifications' : q.key = r.key => q.resendTime > now]_vars

\* A row stored with resendTime = 0 at second 1 and not postponed is returned
\* by a call made at second 7, the second it is due.
C23_Witness ==
    /\ th["t1"].op = "RetrieveNotifications" /\ th["t1"].pc = "idle"
    /\ th["t1"].destType = "" /\ th["t1"].destID = ""
    /\ now = EpochTS + 6 * ResendInterval
    /\ \E n \in 1..Len(th["t1"].metas) :
         /\ th["t1"].metas[n].resendTime = now
         /\ th["t1"].metas[n].status = "Consumed"
         /\ th["t1"].metas[n] \in notifications

\* C24: RetrieveNotifications with a destination given returns exactly the
\* rows of that (org, destType, destID) whose status is Getdata, Update,
\* Received, Consumed, Data, Delete or Deleted, and those with status
\* ReceivedByDestination when retrieveReceived is true; which of the other
\* statuses are returned does not depend on retrieveReceived.
C24_DestinationNotifications ==
    [][( /\ RetrieveNotificationsReturns
         /\ ~(th'["t1"].destType = "" /\ th'["t1"].destID = "") )
       => ReturnedRows =
            {r \in notifications :
               /\ r.key.org = th'["t1"].id
               /\ r.key.destType = th'["t1"].destType
               /\ r.key.destID = th'["t1"].destID
               /\ r.status \in
                    {"Getdata", "Update", "Received", "Consumed", "Data", "Delete", "Deleted"}
                    \cup (IF th'["t1"].retrieveReceived
                            THEN {"ReceivedByDestination"} ELSE {})}]_vars

C26_ChunkAtEnd ==
    [][( /\ th'["t1"].op = "GetDataChunk" /\ calls' = calls + 1
         /\ Published.exists
         /\ th'["t1"].err = ""
         /\ th'["t1"].offset = Len(Published.data) )
       => /\ th'["t1"].data = <<>>
          /\ th'["t1"].eof
          /\ th'["t1"].val = 0]_vars

\* C27: ReadObjectData(key, size, offset) on an existing blob of length L
\* returns no error and n = min(size, L - offset) bytes equal to
\* blob[offset, offset + n), with eof = true exactly when offset + n = L;
\* and an empty slice with eof = true whenever offset >= L.
C27_ReadObjectData ==
    [][\A id \in UploadKeys, size \in 0..(MaxChunk + 1), offset \in 0..(MaxOffset + 1) :
         ( /\ files[id].exists
           /\ ReadObjectData("t1", id, size, offset) )
         => LET L == Len(files[id].data)
                r == th'["t1"]
            IN  /\ r.err = ""
                /\ IF offset >= L
                     THEN r.data = <<>> /\ r.eof /\ r.val = 0
                     ELSE /\ r.val = Min2(size, L - offset)
                          /\ Len(r.data) = r.val
                          /\ \A i \in 1..r.val : r.data[i] = files[id].data[offset + i]
                          /\ r.eof <=> (offset + r.val = L)]_vars

\* A read of 2 bytes at offset 1 of a blob of 3 bytes returned the last two
\* bytes and eof.
C27_Witness ==
    /\ th["t1"].pc = "idle" /\ th["t1"].op = "ReadObjectData" /\ th["t1"].err = ""
    /\ th["t1"].size = 2 /\ th["t1"].offset = 1
    /\ th["t1"].data = <<1, 2>> /\ th["t1"].eof
    /\ \E id \in UploadKeys : files[id] = File(<<2, 1, 2>>)

\* C28: a webhook list never holds the same URL twice, after any sequence or
\* interleaving of AddWebhook and DeleteWebhook calls for the object type;
\* and an AddWebhook of a URL the list holds returns success without
\* changing the list.
C28_NoDuplicateHooks ==
    [][/\ \A n, m \in 1..Len(webhooks'.hooks) :
            webhooks'.hooks[n] = webhooks'.hooks[m] => n = m
       /\ \A t \in Threads :
            ( /\ th[t].pc \in {"idle", "AddWebhook_fetch"}
              /\ th'[t].op = "AddWebhook" /\ th'[t] # th[t]
              /\ \E n \in 1..Len(webhooks.hooks) : webhooks.hooks[n] = th'[t].url )
            => /\ th'[t].pc = "idle" /\ th'[t].err = ""
               /\ webhooks' = webhooks]_vars

\* Two concurrent AddWebhook calls of one URL both returned success, one of
\* them on its second try, after its insert met the document of the other,
\* and the list holds the URL once.
C28_Witness ==
    /\ calls = 2
    /\ \A t \in Threads : /\ th[t].pc = "idle" /\ th[t].op = "AddWebhook"
                          /\ th[t].err = "" /\ th[t].url = "http://a"
    /\ \E t \in Threads : th[t].i = 1
    /\ webhooks.exists /\ webhooks.hooks = <<"http://a">>
    /\ webhooks.lastUpdate = 0

\* The outcome of the guarded update of a try on thread t: with the guard
\* matching the handler goes on without an error (it returns, or the pass of
\* RetrieveObjects moves to its next object); with a conflict it fetches
\* again, and after the conflict of try maxUpdateTries it returns the error.
TryOutcome(t, update, fetch, match, next) ==
    (th[t].pc = update /\ th'[t] # th[t]) =>
        IF match
          THEN th'[t].err = "" /\ th'[t].pc \in {"idle", next}
          ELSE IF th[t].i + 1 < maxUpdateTries
            THEN th'[t].pc = fetch /\ th'[t].i = th[t].i + 1
            ELSE th'[t].pc = "idle" /\ th'[t].err = "update"

\* C29: UpdateObjectDeliveryStatus, UpdateObjectDelivering, RetrieveObjects,
\* AddWebhook and DeleteWebhook make at most maxUpdateTries (5) tries of fetch
\* and guarded update: the first try whose last-update guard matches ends the
\* retrying with success, every conflict before the fifth leads to one more
\* fetch, and the fifth conflict returns the update error.
C29_AtMostFiveTries ==
    [][\A t \in Threads :
         /\ th'[t].i < maxUpdateTries
         /\ TryOutcome(t, "DeliveryStatus_update", "DeliveryStatus_fetch",
                       /\ objects[th[t].id].exists
                       /\ objects[th[t].id].lastUpdate = th[t].res.lastUpdate,
                       "idle")
         /\ TryOutcome(t, "Delivering_update", "Delivering_fetch",
                       /\ objects[th[t].id].exists
                       /\ objects[th[t].id].lastUpdate = th[t].res.lastUpdate,
                       "idle")
         /\ TryOutcome(t, "RetrieveObjects_update", "RetrieveObjects_fetch",
                       /\ objects[th[t].list[th[t].j].id].exists
                       /\ objects[th[t].list[th[t].j].id].lastUpdate
                            = th[t].list[th[t].j].obj.lastUpdate,
                       "RetrieveObjects_dest")
         /\ TryOutcome(t, "AddWebhook_update", "AddWebhook_fetch",
                       webhooks.exists /\ webhooks.lastUpdate = th[t].result.lastUpdate,
                       "idle")
         /\ TryOutcome(t, "DeleteWebhook_update", "DeleteWebhook_fetch",
                       webhooks.exists /\ webhooks.lastUpdate = th[t].result.lastUpdate,
                       "idle")]_vars

\* UpdateObjectDeliveryStatus returned the update error: each of its five
\* tries met a write of the other thread.
C29_Witness ==
    /\ th["t1"].pc = "idle" /\ th["t1"].op = "UpdateObjectDeliveryStatus"
    /\ th["t1"].err = "update"
    /\ th["t2"].op = "ActivateObject"
    /\ calls = MaxOps
    /\ clock = MaxClock - 1

\* C30: a chunk is buffered only when its offset is greater than the handle's
\* offset: every key of the chunk map of an open upload is greater than the
\* handle's offset, and after a successful AppendObjectData no buffered chunk
\* is keyed by the handle's offset.
C30_BufferOnlyAhead ==
    \A id \in Keys :
        openFiles[id].open =>
            /\ \A c \in openFiles[id].chunks : c.off > openFiles[id].offset
            /\ (aret.op = "AppendObjectData" /\ aret.id = id /\ aret.err = "")
                 => ChunkAt(openFiles[id], openFiles[id].offset) = {}

\* C31: UpdateObjectDeliveryStatus for a destination the object has no entry
\* for returns the destination-not-found error and leaves the object (its
\* destinations, expiration and last-update) as it was.
C31_MissingDestinationFails ==
    [][\A t \in Threads :
         ( /\ th[t].pc = "idle" /\ th'[t] # th[t]
           /\ th'[t].op = "UpdateObjectDeliveryStatus"
           /\ objects[th'[t].id].exists
           /\ \A n \in 1..Len(objects[th'[t].id].destinations) :
                 objects[th'[t].id].destinations[n].destination
                   # [destType |-> th'[t].destType, destID |-> th'[t].destID] )
         => /\ th'[t].pc = "idle"
            /\ th'[t].err = "destination"
            /\ objects' = objects]_vars

\* C31 as the code has it: a report with a status or a message for a
\* destination the object has no entry for returns the destination-not-found
\* error, a report with neither returns success before the object is read;
\* both leave the object as it was.
C31_MissingDestination ==
    [][\A t \in Threads :
         ( /\ th[t].pc = "idle" /\ th'[t] # th[t]
           /\ th'[t].op = "UpdateObjectDeliveryStatus"
           /\ objects[th'[t].id].exists
           /\ \A n \in 1..Len(objects[th'[t].id].destinations) :
                 objects[th'[t].id].destinations[n].destination
                   # [destType |-> th'[t].destType, destID |-> th'[t].destID] )
         => /\ th'[t].pc = "idle"
            /\ th'[t].err = IF th'[t].status = "" /\ th'[t].message = ""
                              THEN "" ELSE "destination"
            /\ objects' = objects]_vars

\* A Consumed report for a destination of another type returned the error
\* after the other thread's report for a destination of the object was stored.
C31_Witness ==
    /\ th["t1"].pc = "idle" /\ th["t1"].op = "UpdateObjectDeliveryStatus"
    /\ th["t1"].err = "destination" /\ th["t1"].status = "Consumed"
    /\ th["t1"].destType = "T2"
    /\ \E id \in UploadKeys :
         /\ th["t1"].id = id
         /\ objects[id].lastUpdate > EpochTS
         /\ \A n \in 1..Len(objects[id].destinations) :
               objects[id].destinations[n].destination.destType # "T2"

\* C32: StoreObjectData for a key with no stored object returns false and no
\* error and changes neither the objects nor the payloads; a call that
\* succeeds on a stored object returns true, the payload is the bytes read
\* and metadata.objectSize is their number.
C32_StoreObjectData ==
    [][/\ ( /\ th["t1"].pc = "idle" /\ calls' = calls + 1
            /\ th'["t1"].op = "StoreObjectData"
            /\ ~objects[th'["t1"].id].exists )
         => /\ th'["t1"].pc = "idle" /\ th'["t1"].val = 0 /\ th'["t1"].err = ""
            /\ objects' = objects /\ files' = files
       /\ ( /\ th["t1"].op = "StoreObjectData" /\ th["t1"].pc # "idle"
            /\ th'["t1"].pc = "idle" /\ th'["t1"].err = "" )
         => /\ th'["t1"].val = 1
            /\ files'[th["t1"].id] = File(th["t1"].data)
            /\ objects'[th["t1"].id].exists
            /\ objects'[th["t1"].id].md.objectSize = Len(th["t1"].data)]_vars

\* The third call stored a payload of two bytes for a stored object.
C32_Witness ==
    /\ th["t1"].pc = "idle" /\ th["t1"].op = "StoreObjectData"
    /\ th["t1"].val = 1 /\ th["t1"].err = ""
    /\ calls = 3
    /\ \E id \in Keys :
         /\ objects[id].exists /\ objects[id].status = "ReadyToSend"
         /\ objects[id].md.objectSize = 2
         /\ files[id] = File(<<1, 2>>)

\* C33: ResignLeadership sets the heartbeat timestamp of the leader document
\* to the epoch only if the document's uuid is the caller's; uuid, version and
\* timeout stay as they are, and for a caller that is not the recorded leader
\* nothing changes and no error is returned.
C33_ResignOnlyOwnLease ==
    [][ret'.op = "ResignLeadership" =>
         /\ ~ret'.err
         /\ Cardinality(leader') = Cardinality(leader)
         /\ \A d \in leader :
               [d EXCEPT !.ts = IF d.uuid = ret'.node THEN EpochTS ELSE @] \in leader'
         /\ (\A d \in leader : d.uuid # ret'.node) => leader' = leader]_vars

\* The node that took the leadership over resigned: its document carries the
\* epoch, its uuid and the version of the takeover.
C33_Witness ==
    /\ ret.op = "ResignLeadership" /\ ret.success
    /\ \E d \in leader : /\ d.uuid = ret.node /\ d.ts = EpochTS
                          /\ d.version = 2 /\ d.timeout = LeadershipTimeout(ret.node)
    /\ lastWinner = ret.node

\* C34: the handle of an upload stays in openFiles under its key until the
\* call with the last chunk: while the upload is in progress, whatever
\* RetrieveObjectData and CloseDataReader calls were made for the key, the
\* entry is there and is the upload's, so a further chunk finds it.
C34_UploadHandleStays ==
    \A id \in UploadKeys :
        UploadInProgress("t2", id) =>
            openFiles[id].open /\ ~openFiles[id].reading

\* C35: when the call with the last chunk returns success, the chunk map of
\* the handle it closes is empty, and the published blob holds the bytes of
\* every chunk the upload accepted, at the chunk's offset.
C35_PublishedComplete ==
    [][\A id \in Keys :
         ( /\ aret'.op = "AppendObjectData" /\ aret'.id = id
           /\ aret'.last /\ aret'.err = ""
           /\ Len(up'[id].sent) = Len(up[id].sent) + 1 )
         => LET c == CHOOSE x \in up[id].all : x.off = up'[id].sent[Len(up'[id].sent)]
                h == AppendObjectData(openFiles[id], files[id], ChunkData(c), FALSE,
                                      c.len, c.off, c.off = 0, FALSE).h
            IN  /\ h.chunks = {}
                /\ files'[id].exists
                /\ \A n \in 1..Len(up'[id].sent) :
                      LET d == CHOOSE x \in up[id].all : x.off = up'[id].sent[n]
                      IN  /\ d.off + d.len <= Len(files'[id].data)
                          /\ SubSeq(files'[id].data, d.off + 1, d.off + d.len)
                               = ChunkData(d)]_vars

\* C36: an AppendObjectData call that returns an error leaves the published
\* payloads and openFiles (the entry of the key, with the handle's offset and
\* chunk map) as they were before the call.
C36_ErrorLeavesState ==
    [][(calls' = calls + 1 /\ aret'.op = "AppendObjectData" /\ aret'.err # "")
         => files' = files /\ openFiles' = openFiles]_vars

\* C37: heartbeats do not protect the lease against a node that read the
\* version earlier: LeaderPeriodicUpdate and ResignLeadership leave the
\* version as it is, the version changes only in a successful UpdateLeader,
\* and UpdateLeader with the stored version succeeds whoever the leader is and
\* however fresh its heartbeat.
C37_HeartbeatKeepsVersion ==
    [][/\ ret'.op \in {"LeaderPeriodicUpdate", "ResignLeadership"}
           => {d.version : d \in leader'} = {d.version : d \in leader}
       /\ (leader # {} /\ {d.version : d \in leader'} # {d.version : d \in leader})
           => ret'.op = "UpdateLeader" /\ ret'.success
       /\ ( /\ ret'.op = "UpdateLeader"
            /\ \E d \in leader : d.version = ret'.version )
           => /\ ret'.success
              /\ \E d \in leader' : d.uuid = ret'.node]_vars

\* UpdateLeader with the version of the inserted document succeeded after two
\* successful heartbeats of the leader: the clock advanced three times and
\* only one UpdateLeader succeeded.
C37_Witness ==
    /\ ret = Call("UpdateLeader", 2, 1, TRUE)
    /\ nInserted = 1
    /\ clock = EpochTS + 3
    /\ won[1] = 1 /\ \A v \in Versions \ {1} : won[v] = 0
    /\ \E d \in leader : d.uuid = 2 /\ d.version = 2 /\ d.ts = clock

\* C38: when each of the N = 2 threads has made one call of
\* DecrementAndReturnRemainingConsumers on an object with remainingConsumers
\* = N, the values they returned differ, so exactly one of them is 0.
C38_DistinctReturns ==
    \A id \in UploadKeys :
        ( /\ objects[id].md.expectedConsumers = Cardinality(Threads)
          /\ calls = Cardinality(Threads)
          /\ \A t \in Threads :
                /\ th[t].pc = "idle" /\ th[t].err = ""
                /\ th[t].op = "DecrementAndReturnRemainingConsumers" )
        => /\ \A t, u \in Threads : t # u => th[t].val # th[u].val
           /\ Cardinality({t \in Threads : th[t].val = 0}) = 1

\* C38 as the code has it: the values returned are between 0 and N - 1, the
\* stored counter ends at 0 and at least one caller, the one whose fetch is
\* the last, returns 0; the values need not differ.
C38_SomeReturnZero ==
    \A id \in UploadKeys :
        ( /\ objects[id].md.expectedConsumers = Cardinality(Threads)
          /\ calls = Cardinality(Threads)
          /\ \A t \in Threads :
                /\ th[t].pc = "idle" /\ th[t].err = ""
                /\ th[t].op = "DecrementAndReturnRemainingConsumers" )
        => /\ \A t \in Threads : th[t].val \in 0..(Cardinality(Threads) - 1)
           /\ \E t \in Threads : th[t].val = 0
           /\ objects[id].remainingConsumers = 0

\* Both decrements are stored; one caller has fetched and returned 0 while the
\* other, which will return 0 too, has not fetched yet.
C38_Witness ==
    /\ calls = 2
    /\ th["t1"].pc = "idle" /\ th["t1"].op = "DecrementAndReturnRemainingConsumers"
    /\ th["t1"].err = "" /\ th["t1"].val = 0
    /\ th["t2"].pc = "Decrement_fetch"
    /\ \E id \in UploadKeys : /\ th["t2"].id = id
                              /\ objects[id].md.expectedConsumers = 2
                              /\ objects[id].remainingConsumers = 0

\* C39: when DeleteWebhook returns success, the stored list of the object
\* type holds no hook that equals the URL under case folding, whatever list
\* the AddWebhook calls before it have built.
C39_NoHookLeft ==
    [][\A t \in Threads :
         ( /\ th[t].pc # "idle" \/ calls' = calls + 1
           /\ th'[t].pc = "idle" /\ th'[t].op = "DeleteWebhook"
           /\ th'[t].err = "" )
         => \A n \in 1..Len(webhooks'.hooks) :
              ~EqualFold(webhooks'.hooks[n], th'[t].url)]_vars

\* C40: no step of DeleteOrganization(orgID) changes a messaging group, a
\* destination, a notification or an object of another organization; and
\* when it returns success, no messaging group, destination, notification
\* or object of the organization is left, and no payload is left of an
\* object that the call removed.
C40_OrganizationRemoved ==
    [][LET orgID == th'["t1"].id
       IN  /\ (th'["t1"].op = "DeleteOrganization" /\ th'["t1"] # th["t1"])
               => /\ {g \in messagingGroups' : g.id # orgID}
                       = {g \in messagingGroups : g.id # orgID}
                  /\ orgID # "O" => destinations' = destinations
                  /\ {r \in notifications' : r.key.org # orgID}
                       = {r \in notifications : r.key.org # orgID}
                  /\ \A id \in Keys : DestOrgID[id] # orgID => objects'[id] = objects[id]
           /\ ( /\ th["t1"].pc = "DeleteOrganization_objects"
                /\ th'["t1"].pc = "idle" /\ th'["t1"].err = "" )
               => /\ \A g \in messagingGroups' : g.id # orgID
                  /\ orgID = "O" => destinations' = <<>>
                  /\ \A r \in notifications' : r.key.org # orgID
                  /\ \A id \in Keys : DestOrgID[id] = orgID => ~objects'[id].exists
                  /\ \A id \in Keys :
                        (objects[id].exists /\ ~objects'[id].exists)
                        => ~files'[id].exists]_vars

(***************************************************************************)
(* The file payload backend: properties                                    *)
(***************************************************************************)

\* C13: after any earlier sequence of StoreData, AppendData and
\* DeleteStoredData calls on the URI, failed and abandoned ones included, a
\* successful StoreData(uri, data) followed by GetData(uri) yields exactly
\* the bytes of data.
C13_StoreThenGet ==
    [][\A t \in Threads :
         ( /\ th[t].pc = "idle" /\ th[t].op = "StoreData" /\ th[t].err = ""
           /\ th'[t].pc = "idle" /\ th'[t].op = "GetData"
           /\ th'[t].err # "Invalid data URI" )
         => (th'[t].err = "" /\ th'[t].data = th[t].data)]_vars

\* C14: GetData never observes unpublished bytes: under any interleaving of
\* AppendData, StoreData and GetData calls the content under the published
\* path changes only in the step in which an AppendData with isLastChunk or a
\* StoreData returns success; a call that fails, and an AppendData without
\* isLastChunk, leave it as it was.
C14_PublishOnlyOnSuccess ==
    [][Published' # Published =>
         \E t \in Threads :
             /\ \/ th[t].pc = "StoreData_rename"
                \/ th[t].pc = "AppendData_rename" /\ th[t].last
             /\ th'[t].pc = "idle"
             /\ th'[t].err = ""]_vars

=============================================================================
